---- MODULE Spec2Model ----
(***************************************************************************)
(* ScribeAI live recording pipeline.                                       *)
(*                                                                         *)
(*   - the coordinator: the socket handlers of server/socket/recording.ts *)
(*     (start-recording, audio-chunk, pause-recording, resume-recording,   *)
(*     stop-recording with its background summary job, disconnect) over    *)
(*     the persisted records of server/services/sessionService.ts and the  *)
(*     chunk processing of server/services/audioProcessor.ts;              *)
(*   - the transcript assembler: addTranscriptChunk / clearTranscripts of  *)
(*     src/stores/recordingStore.ts;                                       *)
(*   - the client: startRecording, pauseRecording, resumeRecording,        *)
(*     stopRecording and the listeners of src/hooks/useRecording.ts over   *)
(*     the timer fields of the store, as the client of connection 1, with  *)
(*     its capture (stream, MediaRecorder, chunk buffer, flush interval)   *)
(*     and the controls of the RecordingControls component.                *)
(*                                                                         *)
(* Text is a sequence of one-character strings, so that join, trim and     *)
(* length are computed and not assumed.                                    *)
(*                                                                         *)
(* A handler is an async function: it runs without interruption between    *)
(* two awaits.  One step of a handler is the effect of the operation it    *)
(* awaits followed by the synchronous code up to the next await; the       *)
(* action that receives a request runs the code before the first await.    *)
(* Persistence calls succeed in the specifications below, except where a   *)
(* constraint of the store rejects the write.                              *)
(***************************************************************************)
EXTENDS Integers, Sequences, FiniteSets, Bags, TLC

VARIABLES
  sockets,          \* socket.data and socket.rooms of every connection
  sessions,         \* db.recordingSession, indexed by session id
  transcripts,      \* db.transcript rows, in insertion order
  summaries,        \* db.summary rows, in insertion order
  errorLogs,        \* db.errorLog rows
  reqs,             \* handler invocations (a bag): their arguments, locals and position
  jobs,             \* background summary jobs started by stop-recording (a bag)
  emitted,          \* events sent to the session rooms
  transcriptChunks, \* recordingStore.transcriptChunks
  fullTranscript,   \* recordingStore.fullTranscript
  delivered,        \* fragments handed to addTranscriptChunk since the last clear
  store,            \* recordingStore: status, sessionId, error and the timer fields
  hook,             \* useRecording: the call in progress, the elapsed-time interval
  now,              \* Date.now() in the browser, in milliseconds
  recordedMs,       \* the time the store status has been "recording" in this session
  media             \* useRecording: the refs of the capture and the segments sent

coordVars == <<sockets, sessions, transcripts, summaries, errorLogs, reqs, jobs, emitted>>
storeVars == <<transcriptChunks, fullTranscript, delivered>>
clientVars == <<store, hook, now, recordedMs, media>>
vars == <<sockets, sessions, transcripts, summaries, errorLogs, reqs, jobs, emitted,
          transcriptChunks, fullTranscript, delivered, store, hook, now, recordedMs,
          media>>

----------------------------------------------------------------------------
(* Bounds *)

MaxConns == 2
MaxSessions == 2
MaxReqs == 3
MaxChunkIndex == 1
MaxDeliveries == 4
MaxFragIndex == 2
MaxCalls == 4
MaxClockSteps == 6
MaxFragments == 2

----------------------------------------------------------------------------
(* Text *)

EmptyText == << >>
Space == <<" ">>
Hello == <<"H", "e", "l", "l", "o">>
World == <<"w", "o", "r", "l", "d">>
HelloWorld == <<"H", "e", "l", "l", "o", " ", "w", "o", "r", "l", "d">>

Texts == {EmptyText, Hello, World}

IsSpace(ch) == ch = " "

RECURSIVE TrimStart(_)
TrimStart(s) ==
  IF s # << >> /\ IsSpace(Head(s)) THEN TrimStart(Tail(s)) ELSE s

RECURSIVE TrimEnd(_)
TrimEnd(s) ==
  IF s # << >> /\ IsSpace(s[Len(s)]) THEN TrimEnd(SubSeq(s, 1, Len(s) - 1)) ELSE s

\* String.prototype.trim
Trim(s) == TrimEnd(TrimStart(s))

\* Array.prototype.join(" ") over an array of texts
RECURSIVE JoinSpace(_)
JoinSpace(ts) ==
  IF ts = << >> THEN EmptyText
  ELSE IF Len(ts) = 1 THEN ts[1]
  ELSE ts[1] \o Space \o JoinSpace(Tail(ts))

\* Array.prototype.sort((a, b) => a.chunkIndex - b.chunkIndex): a stable sort
RECURSIVE InsertByChunkIndex(_, _)
InsertByChunkIndex(sorted, x) ==
  IF sorted = << >> THEN <<x>>
  ELSE IF x.chunkIndex < Head(sorted).chunkIndex THEN <<x>> \o sorted
  ELSE <<Head(sorted)>> \o InsertByChunkIndex(Tail(sorted), x)

RECURSIVE SortByChunkIndex(_)
SortByChunkIndex(xs) ==
  IF xs = << >> THEN << >>
  ELSE InsertByChunkIndex(SortByChunkIndex(SubSeq(xs, 1, Len(xs) - 1)), xs[Len(xs)])

SeqMapText(xs) == [k \in 1..Len(xs) |-> xs[k].text]

----------------------------------------------------------------------------
(* The transcript assembler: src/stores/recordingStore.ts *)

Fragments == [chunkIndex : 0..MaxFragIndex, text : Texts]

StoreState == [transcriptChunks |-> transcriptChunks, fullTranscript |-> fullTranscript]

ExistsChunkNever(state, chunk) == FALSE

ExistsChunk(state, chunk) ==
  \E k \in 1..Len(state.transcriptChunks) :
    state.transcriptChunks[k].chunkIndex = chunk.chunkIndex

SortChunksNone(xs) == xs

SortChunks(xs) == SortByChunkIndex(xs)

AddTranscriptChunkReplaces(state, chunk) ==
  LET others == SelectSeq(state.transcriptChunks,
                          LAMBDA c : c.chunkIndex # chunk.chunkIndex)
      newChunks == SortChunks(Append(others, chunk))
  IN [transcriptChunks |-> newChunks,
      fullTranscript |-> JoinSpace(SeqMapText(newChunks))]

\* addTranscriptChunk as a function of the store state
AddTranscriptChunk(state, chunk) ==
  IF ExistsChunk(state, chunk) THEN state
  ELSE LET newChunks == SortChunks(Append(state.transcriptChunks, chunk))
       IN [transcriptChunks |-> newChunks,
           fullTranscript |-> JoinSpace(SeqMapText(newChunks))]

addTranscriptChunk(chunk) ==
  /\ Len(delivered) < MaxDeliveries
  /\ LET next == AddTranscriptChunk(StoreState, chunk)
     IN /\ transcriptChunks' = next.transcriptChunks
        /\ fullTranscript' = next.fullTranscript
  /\ delivered' = Append(delivered, chunk)
  /\ UNCHANGED coordVars
  /\ UNCHANGED clientVars

clearTranscripts ==
  /\ transcriptChunks' = << >>
  /\ fullTranscript' = EmptyText
  /\ delivered' = << >>
  /\ UNCHANGED coordVars
  /\ UNCHANGED clientVars

InitStore ==
  /\ transcriptChunks = << >>
  /\ fullTranscript = EmptyText
  /\ delivered = << >>

----------------------------------------------------------------------------
(* The persisted records and the connections *)

UserA == <<"u", "1">>
UserB == <<"u", "2">>
Users == {UserA, UserB}

Conns == 1..MaxConns

\* socket.data.currentSessionId when it is not set
NoSession == 0
\* a session id that no record of db.recordingSession carries
UnknownSessionId == -1
\* recordingSession.duration before updateSessionDuration has written it
NoDuration == -1
\* recordingSession.fullTranscript before the summary job has written it
NullText == <<"null">>

ActiveStatuses == {"RECORDING", "PAUSED"}
Statuses == {"RECORDING", "PAUSED", "PROCESSING", "COMPLETED", "FAILED"}

SessionIds == 1..Len(sessions)
SessionExists(sid) == sid \in SessionIds

\* payload durations, in tenths of a second
Durations == {150, 157, 162}

\* Math.floor of a duration given in tenths of a second, in seconds
MathFloor(tenths) == tenths \div 10

HighConfidence == 95
ZeroConfidence == 0

\* a || b on numbers
OrElse(a, b) == IF a = 0 THEN b ELSE a

\* createSession: the record db.recordingSession.create writes
NewSessionRecord(userId) ==
  [userId |-> userId, status |-> "RECORDING", duration |-> NoDuration,
   fullTranscript |-> NullText]

SetStatus(sid, status) == [sessions EXCEPT ![sid].status = status]

\* logError: the row is written when the session it refers to exists; a failed
\* write is caught inside logError
LogError(sid, errorType) ==
  IF SessionExists(sid)
  THEN errorLogs \cup {[sessionId |-> sid, errorType |-> errorType]}
  ELSE errorLogs

StatusEvent(status, sid) ==
  [type |-> "recording-status", sessionId |-> sid, status |-> status,
   chunkIndex |-> 0, text |-> EmptyText, confidence |-> 0]

TranscriptionEvent(sid, chunkIndex, text, confidence) ==
  [type |-> "transcription-update", sessionId |-> sid, status |-> "",
   chunkIndex |-> chunkIndex, text |-> text, confidence |-> confidence]

SummaryEvent(sid) ==
  [type |-> "summary-generated", sessionId |-> sid, status |-> "",
   chunkIndex |-> 0, text |-> EmptyText, confidence |-> 0]

----------------------------------------------------------------------------
(* Handler invocations *)

\* String(undefined)
StrUndefined == <<"u", "n", "d", "e", "f", "i", "n", "e", "d">>

\* the result of findUnique when no record matches, read through session?.
NoRow == [userId |-> StrUndefined, status |-> ""]

NewReq(kind, conn, sid, pc) ==
  [kind |-> kind, conn |-> conn, sid |-> sid, chunkIndex |-> 0, duration |-> 0,
   pc |-> pc, ack |-> "none", error |-> "",
   mismatch |-> FALSE,   \* audio-chunk: the binding differed on arrival
   found |-> FALSE,      \* the session row the handler read existed
   row |-> NoRow,        \* the session row the handler read
   text |-> EmptyText,   \* audio-chunk: the transcription result
   confidence |-> 0,
   transcriptionText |-> EmptyText, \* audio-chunk: what generateContent returned
   persistFailed |-> FALSE,         \* audio-chunk: addTranscript threw
   created |-> NoSession, \* start-recording: the session it created
   answered |-> FALSE     \* the promise of the sender's emit has settled
  ]

Reqs == BagToSet(reqs)
Jobs == BagToSet(jobs)

Receive(r) == reqs' = reqs (+) SetToBag({r})
Move(r, fields) == reqs' = (reqs (-) SetToBag({r})) (+) SetToBag({fields @@ r})
Finish(r, fields) == Move(r, fields @@ [pc |-> "done"])

IsAt(r, kind, pc) == r \in Reqs /\ r.kind = kind /\ r.pc = pc

MoveJob(j, fields) == jobs' = (jobs (-) SetToBag({j})) (+) SetToBag({fields @@ j})

ReadRow(sid) ==
  IF SessionExists(sid)
  THEN [userId |-> sessions[sid].userId, status |-> sessions[sid].status]
  ELSE NoRow

\* io.use authentication middleware followed by the connection handler;
\* connections are numbered in the order they are made, and the first one is
\* UserA's
Connect(c, u) ==
  /\ sockets[c].state = "new"
  /\ c = 1 => u = UserA
  /\ IF c = 1 THEN TRUE ELSE sockets[c - 1].state # "new"
  /\ sockets' = [sockets EXCEPT ![c] = [state |-> "open", userId |-> u,
                                        currentSessionId |-> NoSession, rooms |-> {}]]
  /\ UNCHANGED <<sessions, transcripts, summaries, errorLogs, reqs, jobs, emitted>>
  /\ UNCHANGED storeVars
  /\ UNCHANGED clientVars

----------------------------------------------------------------------------
(* start-recording *)

ReceiveStart(c) ==
  /\ sockets[c].state = "open"
  /\ Receive(NewReq("start", c, NoSession, "create"))
  /\ UNCHANGED <<sockets, sessions, transcripts, summaries, errorLogs, jobs, emitted>>
  /\ UNCHANGED storeVars

\* createSession takes effect; the handler binds the socket, joins the room,
\* emits to the others in the room and acknowledges
StartCreate(r) ==
  /\ IsAt(r, "start", "create")
  /\ LET c == r.conn
         sid == Len(sessions) + 1
     IN /\ sessions' = Append(sessions, NewSessionRecord(sockets[c].userId))
        /\ sockets' = [sockets EXCEPT ![c].currentSessionId = sid,
                                      ![c].rooms = @ \cup {sid}]
        /\ emitted' = emitted \cup {StatusEvent("RECORDING", sid)}
        /\ Finish(r, [ack |-> "ok", created |-> sid, sid |-> sid])
  /\ UNCHANGED <<transcripts, summaries, errorLogs, jobs>>
  /\ UNCHANGED storeVars
  /\ UNCHANGED clientVars

\* createSession throws: the catch deletes the binding and acknowledges the
\* failure with the error's message
StartCreateFails(r) ==
  /\ IsAt(r, "start", "create")
  /\ sockets' = [sockets EXCEPT ![r.conn].currentSessionId = NoSession]
  /\ Finish(r, [ack |-> "fail", error |-> "createSession failed"])
  /\ UNCHANGED <<sessions, transcripts, summaries, errorLogs, jobs, emitted>>
  /\ UNCHANGED storeVars
  /\ UNCHANGED clientVars

----------------------------------------------------------------------------
(* audio-chunk *)

RecoveryCheckNoStatus(found, row, socketUserId) ==
  /\ found
  /\ Trim(row.userId) = Trim(socketUserId)

\* session && isUserMatch && (status === "RECORDING" || status === "PAUSED")
RecoveryCheck(found, row, socketUserId) ==
  /\ found
  /\ Trim(row.userId) = Trim(socketUserId)
  /\ row.status = "RECORDING" \/ row.status = "PAUSED"

\* the code before the first await: the comparison of the declared session id
\* with socket.data.currentSessionId
ReceiveChunk(c, sid, chunkIndex) ==
  /\ sockets[c].state = "open"
  /\ LET mismatch == sockets[c].currentSessionId # sid
     IN Receive([NewReq("chunk", c, sid, IF mismatch THEN "recover" ELSE "transcribe")
             EXCEPT !.chunkIndex = chunkIndex, !.mismatch = mismatch])
  /\ UNCHANGED <<sockets, sessions, transcripts, summaries, errorLogs, jobs, emitted>>
  /\ UNCHANGED storeVars

\* db.recordingSession.findUnique returns; the recovery check
ChunkRecover(r) ==
  /\ IsAt(r, "chunk", "recover")
  /\ LET c == r.conn
         sid == r.sid
         row == ReadRow(sid)
         found == SessionExists(sid)
     IN IF RecoveryCheck(found, row, sockets[c].userId)
        THEN /\ sockets' = [sockets EXCEPT ![c].currentSessionId = sid,
                                           ![c].rooms = @ \cup {sid}]
             /\ Move(r, [pc |-> "transcribe", found |-> found, row |-> row])
        ELSE /\ Finish(r, [ack |-> "fail", found |-> found, row |-> row,
                           error |-> "Session ID mismatch or invalid session"])
             /\ UNCHANGED sockets
  /\ UNCHANGED <<sessions, transcripts, summaries, errorLogs, jobs, emitted>>
  /\ UNCHANGED storeVars
  /\ UNCHANGED clientVars

\* the handler's emit and acknowledgement after processAudioChunk has returned
ChunkEmit(r, text, confidence) ==
  emitted' = emitted \cup
    {TranscriptionEvent(r.sid, r.chunkIndex, text,
                        OrElse(confidence, HighConfidence))}

FallbackTranscriptionMarked ==
  [text |-> <<"[", "A", "U", "D", "I", "O", " ", "F", "A", "I", "L", "E", "D", "]">>,
   confidence |-> ZeroConfidence]

\* the catch of processAudioChunk: return { text: fallback, confidence: 0.0 }
FallbackTranscription == [text |-> EmptyText, confidence |-> ZeroConfidence]

ShouldPersistAlways(text) == TRUE

\* if (transcriptionText.length > 0)
ShouldPersist(text) == Len(text) > 0

\* nativeModel.generateContent returns `text` (already trimmed), or throws
ChunkTranscribe(r, ok, text) ==
  /\ IsAt(r, "chunk", "transcribe")
  /\ IF ~ok
     THEN \* generateContent throws: the catch of processAudioChunk
          /\ ChunkEmit(r, FallbackTranscription.text, FallbackTranscription.confidence)
          /\ Finish(r, [ack |-> "ok", text |-> FallbackTranscription.text,
                        confidence |-> FallbackTranscription.confidence])
     ELSE IF ShouldPersist(text)
     THEN \* addTranscript is awaited
          /\ Move(r, [pc |-> "persist", text |-> text, confidence |-> HighConfidence,
                      transcriptionText |-> text])
          /\ UNCHANGED emitted
     ELSE /\ ChunkEmit(r, text, HighConfidence)
          /\ Finish(r, [ack |-> "ok", text |-> text, confidence |-> HighConfidence,
                        transcriptionText |-> text])
  /\ UNCHANGED <<sockets, sessions, transcripts, summaries, errorLogs, jobs>>
  /\ UNCHANGED storeVars
  /\ UNCHANGED clientVars

\* addTranscript takes effect; the handler emits and acknowledges
ChunkPersist(r) ==
  /\ IsAt(r, "chunk", "persist")
  /\ IF SessionExists(r.sid)
     THEN /\ transcripts' = Append(transcripts,
               [sessionId |-> r.sid, chunkIndex |-> r.chunkIndex,
                text |-> r.text, confidence |-> HighConfidence])
          /\ ChunkEmit(r, r.text, HighConfidence)
          /\ Finish(r, [ack |-> "ok"])
     ELSE \* the write is rejected: the catch of processAudioChunk
          /\ ChunkEmit(r, FallbackTranscription.text, FallbackTranscription.confidence)
          /\ Finish(r, [ack |-> "ok", text |-> FallbackTranscription.text,
                        confidence |-> FallbackTranscription.confidence,
                        persistFailed |-> TRUE])
          /\ UNCHANGED transcripts
  /\ UNCHANGED <<sockets, sessions, summaries, errorLogs, jobs>>
  /\ UNCHANGED storeVars
  /\ UNCHANGED clientVars

\* addTranscript throws (the store is unreachable, the write is refused): the
\* catch of processAudioChunk answers the fallback; the handler emits and
\* acknowledges
ChunkPersistFails(r) ==
  /\ IsAt(r, "chunk", "persist")
  /\ ChunkEmit(r, FallbackTranscription.text, FallbackTranscription.confidence)
  /\ Finish(r, [ack |-> "ok", text |-> FallbackTranscription.text,
                confidence |-> FallbackTranscription.confidence,
                persistFailed |-> TRUE])
  /\ UNCHANGED <<sockets, sessions, transcripts, summaries, errorLogs, jobs>>
  /\ UNCHANGED storeVars
  /\ UNCHANGED clientVars

----------------------------------------------------------------------------
(* pause-recording, resume-recording *)

ControlStatus(kind) == IF kind = "pause" THEN "PAUSED" ELSE "RECORDING"

ReceiveControl(c, kind, sid) ==
  /\ sockets[c].state = "open"
  /\ kind \in {"pause", "resume"}
  /\ Receive(NewReq(kind, c, sid, "update"))
  /\ UNCHANGED <<sockets, sessions, transcripts, summaries, errorLogs, jobs, emitted>>
  /\ UNCHANGED storeVars

\* updateSessionStatus takes effect (it throws when no record has the id);
\* the handler emits the status and acknowledges
ControlUpdate(r) ==
  /\ r \in Reqs
  /\ r.kind \in {"pause", "resume"}
  /\ r.pc = "update"
  /\ LET sid == r.sid
         status == ControlStatus(r.kind)
     IN IF SessionExists(sid)
        THEN /\ sessions' = SetStatus(sid, status)
             /\ emitted' = emitted \cup {StatusEvent(status, sid)}
             /\ Finish(r, [ack |-> "ok"])
        ELSE /\ Finish(r, [ack |-> "fail", error |-> "Record to update not found"])
             /\ UNCHANGED <<sessions, emitted>>
  /\ UNCHANGED <<sockets, transcripts, summaries, errorLogs, jobs>>
  /\ UNCHANGED storeVars
  /\ UNCHANGED clientVars

\* updateSessionStatus throws (the store is unreachable): the catch
\* acknowledges the failure with the error's message
ControlUpdateFails(r) ==
  /\ r \in Reqs
  /\ r.kind \in {"pause", "resume"}
  /\ r.pc = "update"
  /\ Finish(r, [ack |-> "fail", error |-> "updateSessionStatus failed"])
  /\ UNCHANGED <<sockets, sessions, transcripts, summaries, errorLogs, jobs, emitted>>
  /\ UNCHANGED storeVars
  /\ UNCHANGED clientVars

----------------------------------------------------------------------------
(* stop-recording and its background summary job *)

IsDuplicateStopProcessingOnly(status) == status = "PROCESSING"

\* existingSession.status === "PROCESSING" || existingSession.status === "COMPLETED"
IsDuplicateStop(status) == status = "PROCESSING" \/ status = "COMPLETED"

ReceiveStop(c, sid, duration) ==
  /\ sockets[c].state = "open"
  /\ Receive([NewReq("stop", c, sid, "read") EXCEPT !.duration = duration])
  /\ UNCHANGED <<sockets, sessions, transcripts, summaries, errorLogs, jobs, emitted>>
  /\ UNCHANGED storeVars

\* db.recordingSession.findUnique returns; the idempotency check
StopRead(r) ==
  /\ IsAt(r, "stop", "read")
  /\ LET sid == r.sid
         row == ReadRow(sid)
         found == SessionExists(sid)
     IN IF ~found
        THEN \* throw new Error("Session not found"): the catch awaits logError
             Move(r, [pc |-> "logError", found |-> found, row |-> row,
                      error |-> "Session not found"])
        ELSE IF IsDuplicateStop(row.status)
        THEN Finish(r, [ack |-> "ok", found |-> found, row |-> row])
        ELSE Move(r, [pc |-> "status", found |-> found, row |-> row])
  /\ UNCHANGED <<sockets, sessions, transcripts, summaries, errorLogs, jobs, emitted>>
  /\ UNCHANGED storeVars
  /\ UNCHANGED clientVars

\* db.recordingSession.findUnique throws: the catch awaits logError
StopReadFails(r) ==
  /\ IsAt(r, "stop", "read")
  /\ Move(r, [pc |-> "logError", error |-> "findUnique failed"])
  /\ UNCHANGED <<sockets, sessions, transcripts, summaries, errorLogs, jobs, emitted>>
  /\ UNCHANGED storeVars
  /\ UNCHANGED clientVars

\* updateSessionStatus(sessionId, "PROCESSING") takes effect
StopStatus(r) ==
  /\ IsAt(r, "stop", "status")
  /\ sessions' = SetStatus(r.sid, "PROCESSING")
  /\ Move(r, [pc |-> "duration"])
  /\ UNCHANGED <<sockets, transcripts, summaries, errorLogs, jobs, emitted>>
  /\ UNCHANGED storeVars
  /\ UNCHANGED clientVars

NewJob(sid) ==
  [sid |-> sid, pc |-> "find", fullTranscript |-> EmptyText, summary |-> "",
   caught |-> FALSE   \* the job's try block threw
  ]

StopDurationUnacknowledged(r) ==
  /\ IsAt(r, "stop", "duration")
  /\ LET sid == r.sid
     IN /\ sessions' = [sessions EXCEPT ![sid].duration = MathFloor(r.duration)]
        /\ emitted' = emitted \cup {StatusEvent("PROCESSING", sid)}
        /\ jobs' = jobs (+) SetToBag({NewJob(sid)})
        /\ Finish(r, [ack |-> "none"])
  /\ UNCHANGED <<sockets, transcripts, summaries, errorLogs>>
  /\ UNCHANGED storeVars
  /\ UNCHANGED clientVars

\* updateSessionDuration takes effect; the handler emits PROCESSING, starts the
\* background job (which runs up to its first await) and acknowledges
StopDuration(r) ==
  /\ IsAt(r, "stop", "duration")
  /\ LET sid == r.sid
     IN /\ sessions' = [sessions EXCEPT ![sid].duration = MathFloor(r.duration)]
        /\ emitted' = emitted \cup {StatusEvent("PROCESSING", sid)}
        /\ jobs' = jobs (+) SetToBag({NewJob(sid)})
        /\ Finish(r, [ack |-> "ok"])
  /\ UNCHANGED <<sockets, transcripts, summaries, errorLogs>>
  /\ UNCHANGED storeVars
  /\ UNCHANGED clientVars

\* the catch of the stop handler: logError returns, the failure is acknowledged
StopLogError(r) ==
  /\ IsAt(r, "stop", "logError")
  /\ errorLogs' = LogError(r.sid, "STOP_RECORDING_ERROR")
  /\ Finish(r, [ack |-> "fail"])
  /\ UNCHANGED <<sockets, sessions, transcripts, summaries, jobs, emitted>>
  /\ UNCHANGED storeVars
  /\ UNCHANGED clientVars

JobAt(j, pc) == j \in Jobs /\ j.pc = pc

\* db.transcript.findMany({ where: { sessionId }, orderBy: { chunkIndex: "asc" } })
FindTranscripts(sid) ==
  SortByChunkIndex(SelectSeq(transcripts, LAMBDA t : t.sessionId = sid))

\* transcripts.map((t) => t.text).join(" ")
FullTranscriptOf(sid) == JoinSpace(SeqMapText(FindTranscripts(sid)))

MinSummaryLength == 20

\* generateSummary never throws: it answers a fixed text for a short
\* transcript, and the model's summary or a fixed text when the model call fails
SummaryOutcomes(text) ==
  IF Len(Trim(text)) < MinSummaryLength THEN {"too short"} ELSE {"generated", "failed"}

\* findMany returns; the job joins the texts and awaits generateSummary
JobFind(j) ==
  /\ JobAt(j, "find")
  /\ MoveJob(j, [pc |-> "summarize", fullTranscript |-> FullTranscriptOf(j.sid)])
  /\ UNCHANGED <<sockets, sessions, transcripts, summaries, errorLogs, reqs, emitted>>
  /\ UNCHANGED storeVars
  /\ UNCHANGED clientVars

\* generateSummary returns; the job awaits the transaction
JobSummarize(j, outcome) ==
  /\ JobAt(j, "summarize")
  /\ outcome \in SummaryOutcomes(j.fullTranscript)
  /\ MoveJob(j, [pc |-> "transaction", summary |-> outcome])
  /\ UNCHANGED <<sockets, sessions, transcripts, summaries, errorLogs, reqs, emitted>>
  /\ UNCHANGED storeVars
  /\ UNCHANGED clientVars

SummaryConflictNever(sid) == FALSE

\* a session has at most one summary (the relation is read as a single object:
\* include: { summary: true }, session.summary.fullSummary), so tx.summary.create
\* is rejected when the session has one
SummaryConflict(sid) ==
  \E k \in 1..Len(summaries) : summaries[k].sessionId = sid

Range(seq) == {seq[k] : k \in 1..Len(seq)}

\* what the job emits after the transaction, in the order of the emits
CompletionEvents(sid) == <<StatusEvent("COMPLETED", sid), SummaryEvent(sid)>>

\* db.$transaction: summary.create and recordingSession.update commit together,
\* then the job emits COMPLETED and summary-generated; when the transaction is
\* rejected nothing is written and the catch awaits updateSessionStatus
JobTransaction(j) ==
  /\ JobAt(j, "transaction")
  /\ LET sid == j.sid
     IN IF SummaryConflict(sid)
        THEN /\ MoveJob(j, [pc |-> "catchStatus", caught |-> TRUE])
             /\ UNCHANGED <<summaries, sessions, emitted>>
        ELSE /\ summaries' = Append(summaries,
                  [sessionId |-> sid, fullSummary |-> j.summary])
             /\ sessions' = [sessions EXCEPT ![sid].fullTranscript = j.fullTranscript,
                                             ![sid].status = "COMPLETED"]
             /\ emitted' = emitted \cup Range(CompletionEvents(sid))
             /\ MoveJob(j, [pc |-> "done"])
  /\ UNCHANGED <<sockets, transcripts, errorLogs, reqs>>
  /\ UNCHANGED storeVars
  /\ UNCHANGED clientVars

\* db.transcript.findMany throws: the catch awaits updateSessionStatus
JobFindFails(j) ==
  /\ JobAt(j, "find")
  /\ MoveJob(j, [pc |-> "catchStatus", caught |-> TRUE])
  /\ UNCHANGED <<sockets, sessions, transcripts, summaries, errorLogs, reqs, emitted>>
  /\ UNCHANGED storeVars
  /\ UNCHANGED clientVars

\* db.$transaction throws and is rolled back: nothing is written, the catch
\* awaits updateSessionStatus
JobTransactionFails(j) ==
  /\ JobAt(j, "transaction")
  /\ MoveJob(j, [pc |-> "catchStatus", caught |-> TRUE])
  /\ UNCHANGED <<sockets, sessions, transcripts, summaries, errorLogs, reqs, emitted>>
  /\ UNCHANGED storeVars
  /\ UNCHANGED clientVars

JobCatchStatusKeeps(j) ==
  /\ JobAt(j, "catchStatus")
  /\ MoveJob(j, [pc |-> "catchLog"])
  /\ UNCHANGED <<sockets, sessions, transcripts, summaries, errorLogs, reqs, emitted>>
  /\ UNCHANGED storeVars
  /\ UNCHANGED clientVars

\* the catch of the job: updateSessionStatus(sessionId, "COMPLETED") takes effect
JobCatchStatus(j) ==
  /\ JobAt(j, "catchStatus")
  /\ sessions' = SetStatus(j.sid, "COMPLETED")
  /\ MoveJob(j, [pc |-> "catchLog"])
  /\ UNCHANGED <<sockets, transcripts, summaries, errorLogs, reqs, emitted>>
  /\ UNCHANGED storeVars
  /\ UNCHANGED clientVars

\* logError returns; the job emits COMPLETED
JobCatchLog(j) ==
  /\ JobAt(j, "catchLog")
  /\ errorLogs' = LogError(j.sid, "SUMMARY_GENERATION_ERROR")
  /\ emitted' = emitted \cup {StatusEvent("COMPLETED", j.sid)}
  /\ MoveJob(j, [pc |-> "done"])
  /\ UNCHANGED <<sockets, sessions, transcripts, summaries, reqs>>
  /\ UNCHANGED storeVars
  /\ UNCHANGED clientVars

----------------------------------------------------------------------------
(* disconnect *)

\* currentSession?.status === "RECORDING" || currentSession?.status === "PAUSED"
IsActiveStatus(status) == status = "RECORDING" \/ status = "PAUSED"

\* the socket closes; the handler reads socket.data.currentSessionId and, when
\* it is set, awaits findUnique
Disconnect(c) ==
  /\ sockets[c].state = "open"
  /\ sockets' = [sockets EXCEPT ![c].state = "closed"]
  /\ LET sid == sockets[c].currentSessionId
     IN Receive(NewReq("disconnect", c, sid,
                                    IF sid # NoSession THEN "read" ELSE "done"))
  /\ UNCHANGED <<sessions, transcripts, summaries, errorLogs, jobs, emitted>>
  /\ UNCHANGED storeVars
  /\ UNCHANGED clientVars

\* findUnique returns; an active session is to be marked FAILED
DisconnectRead(r) ==
  /\ IsAt(r, "disconnect", "read")
  /\ LET row == ReadRow(r.sid)
         found == SessionExists(r.sid)
     IN IF found /\ IsActiveStatus(row.status)
        THEN Move(r, [pc |-> "fail", found |-> found, row |-> row])
        ELSE Finish(r, [found |-> found, row |-> row])
  /\ UNCHANGED <<sockets, sessions, transcripts, summaries, errorLogs, jobs, emitted>>
  /\ UNCHANGED storeVars
  /\ UNCHANGED clientVars

\* updateSessionStatus(sessionId, "FAILED") takes effect
DisconnectFail(r) ==
  /\ IsAt(r, "disconnect", "fail")
  /\ sessions' = SetStatus(r.sid, "FAILED")
  /\ Move(r, [pc |-> "logError"])
  /\ UNCHANGED <<sockets, transcripts, summaries, errorLogs, jobs, emitted>>
  /\ UNCHANGED storeVars
  /\ UNCHANGED clientVars

\* logError returns
DisconnectLogError(r) ==
  /\ IsAt(r, "disconnect", "logError")
  /\ errorLogs' = LogError(r.sid, "CLIENT_DISCONNECTED")
  /\ Finish(r, [error |-> "Client disconnected during active recording"])
  /\ UNCHANGED <<sockets, sessions, transcripts, summaries, jobs, emitted>>
  /\ UNCHANGED storeVars
  /\ UNCHANGED clientVars

----------------------------------------------------------------------------
(* The client: src/hooks/useRecording.ts over src/stores/recordingStore.ts. *)
(* The client is the one of connection 1.  Its calls are made one after the *)
(* other: a call is made when the previous one has returned.  A call is     *)
(* split at the awaits of its emits; the time of the browser advances in    *)
(* steps of ClockStep between the steps, and an interval that is due runs    *)
(* its callback before the client does anything else.  The flush interval   *)
(* of the chunks fires at any time while it is set.                          *)

ClientConn == 1

\* store.startTime when it is null
NoTime == -1
\* timerIntervalRef.current when it is null
NoTimer == -1
\* no call of the hook is in progress
NoCall == [op |-> "", source |-> "", duration |-> 0, recordedMs |-> 0,
           phase |-> "",       \* stopRecording: the emit it awaits
           sid |-> 0,          \* stopRecording: the session and the index of
           chunkIndex |-> 0    \* the segment of its final flush
          ]

\* setInterval(() => store.updateElapsedTime(), 1000)
TimerIntervalMs == 1000
\* the resolution of Date.now() in the model
ClockStep == 500

Sources == {"MIC", "TAB_SHARE"}

\* what the browser answers to the capture requests of startRecording
CaptureOutcomes(source) ==
  IF source = "TAB_SHARE"
  THEN {"stream", "cancelled"}                 \* getTabAudioStream returns or throws
  ELSE {"stream", "denied", "failed"}          \* requestPermission, then getUserMedia

\* useSocket: isConnected follows the connect and disconnect events of the socket
IsConnected == sockets[ClientConn].state = "open"

\* pauseRecording has not been called
NeverPaused == [sessionId |-> NoSession, sent |-> 0, chunksBuffer |-> << >>]

InitClient ==
  /\ store = [status |-> "idle", sessionId |-> NoSession, error |-> "",
              startTime |-> NoTime, accumulatedTime |-> 0, elapsedTime |-> 0,
              chunksSent |-> 0]
  /\ hook = [call |-> NoCall, calls |-> 0, timerInterval |-> NoTimer, heard |-> {},
             last |-> "", mounted |-> TRUE]
  /\ now = 0
  /\ recordedMs = 0
  /\ media = [live |-> FALSE,             \* audioStreamRef holds a stream with live tracks
              recorder |-> "none",        \* mediaRecorderRef: none, or the recorder's state
              chunksBuffer |-> << >>,     \* chunksBufferRef: the capture fragments
              captured |-> 0,             \* the capture fragments delivered so far
              chunkTimers |-> 0,          \* the flush intervals that are set
              chunkTimerRef |-> FALSE,    \* chunkTimerRef holds one of them
              sending |-> EmptyBag,       \* sendAudioChunk calls of the interval at their emit
              sent |-> << >>,             \* the segments emitted, in the order of the emits
              pausedAt |-> NeverPaused,   \* what pauseRecording left when it was last called
              permissionStatus |-> "prompt"]

\* the effect on [store.status, store], which runs again when the store has
\* changed: the interval is set anew while the status is "recording"
TimerEffect(status) == IF status = "recording" THEN now + TimerIntervalMs ELSE NoTimer

\* store.startTimer
StartTimer(st) == [st EXCEPT !.startTime = now, !.accumulatedTime = 0, !.elapsedTime = 0]

\* store.pauseTimer
PauseTimer(st) ==
  IF st.startTime # NoTime
  THEN [st EXCEPT !.startTime = NoTime,
                  !.accumulatedTime = st.accumulatedTime + (now - st.startTime)]
  ELSE st

\* store.resumeTimer
ResumeTimer(st) == [st EXCEPT !.startTime = now]

\* store.stopTimer
StopTimer(st) == [st EXCEPT !.startTime = NoTime, !.accumulatedTime = 0]

\* store.updateElapsedTime
UpdateElapsedTime(st) ==
  IF st.startTime # NoTime
  THEN [st EXCEPT !.elapsedTime = (st.accumulatedTime + (now - st.startTime)) \div 1000]
  ELSE st

\* store.incrementChunksSent
IncrementChunksSent(st) == [st EXCEPT !.chunksSent = @ + 1]

\* The socket delivers the events and the acknowledgements of the coordinator
\* in the order they were sent: when the continuation of an emit runs, the
\* events sent before its acknowledgement are no longer handed to the
\* listeners (hook.heard takes them all).

\* the request of the client's call that the coordinator has answered
AnswerOf(kind) ==
  {r \in Reqs : r.conn = ClientConn /\ r.kind = kind /\ r.pc = "done" /\ ~r.answered}

Answered(r) == (reqs (-) SetToBag({r})) (+) SetToBag({[r EXCEPT !.answered = TRUE]})

Answer(r) == reqs' = Answered(r)

\* the interval is due: its callback runs before anything else the client does
TimerDue == hook.timerInterval # NoTimer /\ now >= hook.timerInterval

CanCall == hook.call = NoCall /\ hook.calls < MaxCalls /\ ~TimerDue /\ hook.mounted

Call(op, source) == [NoCall EXCEPT !.op = op, !.source = source]

\* clearInterval(chunkTimerRef.current); chunkTimerRef.current = null
ClearChunkTimer(m) ==
  [m EXCEPT !.chunkTimers = IF m.chunkTimerRef THEN @ - 1 ELSE @,
            !.chunkTimerRef = FALSE]

\* chunkTimerRef.current = setInterval(() => sendAudioChunk(), CHUNK_DURATION_MS)
SetChunkTimer(m) == [m EXCEPT !.chunkTimers = @ + 1, !.chunkTimerRef = TRUE]

\* cleanupMedia: the interval of the ref is cleared, the recorder and the
\* tracks of the stream are stopped, the buffer is emptied
CleanupMedia(m) ==
  [ClearChunkTimer(m) EXCEPT !.recorder = "none", !.live = FALSE,
                             !.chunksBuffer = << >>]

\* the catch of startRecording: cleanupMedia, setError(error.message || "Failed"),
\* setStatus("idle")
StartFailed(message) ==
  /\ store' = [store EXCEPT !.error = message, !.status = "idle"]
  /\ hook' = [hook EXCEPT !.call = NoCall, !.calls = @ + 1,
                          !.timerInterval = TimerEffect("idle"), !.last = "start failed"]
  /\ media' = CleanupMedia(media)

\* startRecording up to the await of emit("start-recording")
StartRecordingCall(source, capture) ==
  /\ CanCall
  /\ capture \in CaptureOutcomes(source)
  /\ IF ~IsConnected
     THEN /\ StartFailed("Socket not connected")
          /\ UNCHANGED reqs
     ELSE IF source = "TAB_SHARE" /\ capture = "cancelled"
     THEN \* catch (err) { return; }
          /\ hook' = [hook EXCEPT !.calls = @ + 1, !.last = "start failed"]
          /\ UNCHANGED <<store, reqs, media>>
     ELSE IF source = "MIC" /\ capture = "denied"
     THEN \* cleanupMedia; requestPermission sets the error and answers false: return
          /\ store' = [store EXCEPT !.error = "Microphone permission denied"]
          /\ hook' = [hook EXCEPT !.calls = @ + 1, !.last = "start failed",
                                  !.timerInterval = TimerEffect(store.status)]
          /\ media' = [CleanupMedia(media) EXCEPT !.permissionStatus = "denied"]
          /\ UNCHANGED reqs
     ELSE IF capture = "failed"
     THEN \* getUserMedia throws after the permission was granted
          /\ StartFailed("getUserMedia failed")
          /\ UNCHANGED reqs
     ELSE \* the stream is acquired, the one of the refs is cleaned up, the new
          \* stream and its recorder are put in the refs, the buffer is emptied
          /\ ReceiveStart(ClientConn)
          /\ hook' = [hook EXCEPT !.call = Call("start", source), !.calls = @ + 1,
                                  !.last = ""]
          /\ media' = [CleanupMedia(media) EXCEPT
                         !.live = TRUE, !.recorder = "inactive",
                         !.permissionStatus = IF source = "MIC" THEN "granted" ELSE @]
          /\ UNCHANGED store
  /\ UNCHANGED <<sockets, sessions, transcripts, summaries, errorLogs, jobs, emitted>>
  /\ UNCHANGED storeVars
  /\ UNCHANGED <<now, recordedMs>>

\* the session id the store takes from the acknowledgement of start-recording
AckSessionIdKept(r) == store.sessionId

\* store.setSessionId(response.sessionId)
AckSessionId(r) == r.created

\* the emit of start-recording settles: the session is set up, the recorder is
\* started and the flush interval is set; or the catch runs
StartRecordingAck(r) ==
  /\ hook.call.op = "start"
  /\ ~TimerDue
  /\ IsConnected
  /\ r \in AnswerOf("start")
  /\ Answer(r)
  /\ IF r.ack = "ok"
     THEN /\ store' = StartTimer([store EXCEPT !.sessionId = AckSessionId(r),
                                               !.status = "recording"])
          /\ hook' = [hook EXCEPT !.heard = emitted, !.call = NoCall, !.last = "start ok",
                                  !.timerInterval = TimerEffect("recording")]
          /\ media' = SetChunkTimer([media EXCEPT !.recorder = "recording"])
          \* store.clearTranscripts()
          /\ transcriptChunks' = << >>
          /\ fullTranscript' = EmptyText
          /\ delivered' = << >>
          /\ recordedMs' = 0
     ELSE \* emit rejects with new Error(response.error || "Socket emit failed")
          /\ store' = [store EXCEPT !.error = r.error, !.status = "idle"]
          /\ hook' = [hook EXCEPT !.heard = emitted, !.call = NoCall, !.last = "start failed",
                                  !.timerInterval = TimerEffect("idle")]
          /\ media' = CleanupMedia(media)
          /\ UNCHANGED storeVars
          /\ UNCHANGED recordedMs
  /\ UNCHANGED <<sockets, sessions, transcripts, summaries, errorLogs, jobs, emitted>>
  /\ UNCHANGED now

\* pauseRecording, resumeRecording before their emit: the recorder is paused
\* and the flush interval cleared, or the recorder is resumed and an interval set
ControlMedia(kind, m) ==
  IF kind = "pause"
  THEN ClearChunkTimer([m EXCEPT !.recorder = IF @ = "recording" THEN "paused" ELSE @,
                                 !.pausedAt = [sessionId |-> store.sessionId,
                                               sent |-> Len(m.sent),
                                               chunksBuffer |-> m.chunksBuffer]])
  ELSE SetChunkTimer([m EXCEPT !.recorder = IF @ = "paused" THEN "recording" ELSE @])

\* pauseRecording, resumeRecording up to the await of their emit
ControlCall(kind) ==
  /\ CanCall
  /\ kind \in {"pause", "resume"}
  /\ IF store.sessionId = NoSession
     THEN \* if (!state.sessionId) return
          /\ hook' = [hook EXCEPT !.calls = @ + 1, !.last = ""]
          /\ UNCHANGED <<reqs, media>>
     ELSE /\ IF IsConnected
             THEN ReceiveControl(ClientConn, kind, store.sessionId)
             ELSE UNCHANGED reqs   \* the emit is never answered
          /\ hook' = [hook EXCEPT !.call = Call(kind, ""), !.calls = @ + 1, !.last = ""]
          /\ media' = ControlMedia(kind, media)
  /\ UNCHANGED <<sockets, sessions, transcripts, summaries, errorLogs, jobs, emitted>>
  /\ UNCHANGED storeVars
  /\ UNCHANGED <<store, now, recordedMs>>

\* the emit settles: setStatus and pauseTimer / resumeTimer; when the emit
\* rejects the call throws and the store keeps its state
ControlAck(r) ==
  /\ hook.call.op \in {"pause", "resume"}
  /\ ~TimerDue
  /\ IsConnected
  /\ r \in AnswerOf(hook.call.op)
  /\ Answer(r)
  /\ IF r.ack = "ok"
     THEN IF hook.call.op = "pause"
          THEN /\ store' = PauseTimer([store EXCEPT !.status = "paused"])
               /\ hook' = [hook EXCEPT !.heard = emitted, !.call = NoCall, !.last = "pause ok",
                                       !.timerInterval = TimerEffect("paused")]
          ELSE /\ store' = ResumeTimer([store EXCEPT !.status = "recording"])
               /\ hook' = [hook EXCEPT !.heard = emitted, !.call = NoCall, !.last = "resume ok",
                                       !.timerInterval = TimerEffect("recording")]
     ELSE /\ hook' = [hook EXCEPT !.heard = emitted, !.call = NoCall, !.last = "control failed"]
          /\ UNCHANGED store
  /\ UNCHANGED <<sockets, sessions, transcripts, summaries, errorLogs, jobs, emitted>>
  /\ UNCHANGED storeVars
  /\ UNCHANGED <<now, recordedMs, media>>

\* sendAudioChunk goes on: !(!state.sessionId || state.status !== "recording")
SendGuard == store.sessionId # NoSession /\ store.status = "recording"

\* sendAudioChunk emits a segment: the guard passes and the buffer is not empty
Flushes == SendGuard /\ media.chunksBuffer # << >>

\* the segment sendAudioChunk builds: new Blob(currentChunks) under the index
\* state.chunksSent
Segment ==
  [sessionId |-> store.sessionId, chunkIndex |-> store.chunksSent,
   fragments |-> media.chunksBuffer]

ClearedBufferKept(chunks) == chunks

\* chunksBufferRef.current = [] before the first await of sendAudioChunk
ClearedBuffer(chunks) == << >>

\* sendAudioChunk before its emit: the segment is built, the buffer is swapped
HandOff(m) ==
  [m EXCEPT !.sent = Append(@, Segment), !.chunksBuffer = ClearedBuffer(@)]

\* emit("audio-chunk"): the request reaches the coordinator when the socket is
\* connected; otherwise it is never answered
EmitChunk ==
  IF IsConnected
  THEN ReceiveChunk(ClientConn, store.sessionId, store.chunksSent)
  ELSE UNCHANGED reqs

\* the payload duration of stop-recording: state.elapsedTime, in seconds
StopPayload(elapsedTime) == elapsedTime * 10

\* the stop-recording request of the client
StopRequest(sid, duration) ==
  [NewReq("stop", ClientConn, sid, "read") EXCEPT !.duration = duration]

\* stopRecording up to its first emit: sendAudioChunk, and when it has nothing
\* to send the state is read, then stopTimer and setStatus("processing"); the
\* finally runs cleanupMedia when there is no session to stop
StopRecordingCall ==
  /\ CanCall
  /\ IF Flushes
     THEN /\ EmitChunk
          /\ media' = HandOff(media)
          /\ hook' = [hook EXCEPT
                        !.call = [Call("stop", "") EXCEPT !.phase = "flush",
                                                          !.sid = store.sessionId,
                                                          !.chunkIndex = store.chunksSent],
                        !.calls = @ + 1, !.last = ""]
          /\ UNCHANGED store
     ELSE /\ store' = StopTimer([store EXCEPT !.status = "processing"])
          /\ IF store.sessionId = NoSession
             THEN /\ hook' = [hook EXCEPT !.calls = @ + 1, !.last = "",
                                          !.timerInterval = TimerEffect("processing")]
                  /\ media' = CleanupMedia(media)
                  /\ UNCHANGED reqs
             ELSE /\ IF IsConnected
                     THEN ReceiveStop(ClientConn, store.sessionId,
                                      StopPayload(store.elapsedTime))
                     ELSE UNCHANGED reqs   \* the emit is never answered
                  /\ hook' = [hook EXCEPT
                                !.call = [Call("stop", "") EXCEPT
                                            !.phase = "emit",
                                            !.duration = store.elapsedTime,
                                            !.recordedMs = recordedMs],
                                !.calls = @ + 1, !.last = "",
                                !.timerInterval = TimerEffect("processing")]
                  /\ UNCHANGED media
  /\ UNCHANGED <<sockets, sessions, transcripts, summaries, errorLogs, jobs, emitted>>
  /\ UNCHANGED storeVars
  /\ UNCHANGED <<now, recordedMs>>

\* the emit of the final segment settles (incrementChunksSent when it
\* succeeded): the state is read, then stopTimer, setStatus("processing") and
\* the emit of stop-recording
StopFlushAck(r) ==
  /\ hook.call.op = "stop"
  /\ hook.call.phase = "flush"
  /\ ~TimerDue
  /\ IsConnected
  /\ r \in AnswerOf("chunk")
  /\ r.sid = hook.call.sid
  /\ r.chunkIndex = hook.call.chunkIndex
  /\ LET st == IF r.ack = "ok" THEN IncrementChunksSent(store) ELSE store
     IN /\ store' = StopTimer([st EXCEPT !.status = "processing"])
        /\ reqs' = Answered(r) (+)
                     SetToBag({StopRequest(store.sessionId, StopPayload(store.elapsedTime))})
        /\ hook' = [hook EXCEPT !.heard = emitted,
                      !.call = [Call("stop", "") EXCEPT !.phase = "emit",
                                                        !.duration = store.elapsedTime,
                                                        !.recordedMs = recordedMs],
                      !.timerInterval = TimerEffect("processing")]
  /\ UNCHANGED <<sockets, sessions, transcripts, summaries, errorLogs, jobs, emitted>>
  /\ UNCHANGED storeVars
  /\ UNCHANGED <<now, recordedMs, media>>

\* the emit of stop-recording settles: setStatus("completed"); when it rejects
\* the error is written to the console; the finally runs cleanupMedia
StopRecordingAck(r) ==
  /\ hook.call.op = "stop"
  /\ hook.call.phase = "emit"
  /\ ~TimerDue
  /\ IsConnected
  /\ r \in AnswerOf("stop")
  /\ Answer(r)
  /\ IF r.ack = "ok"
     THEN /\ store' = [store EXCEPT !.status = "completed"]
          /\ hook' = [hook EXCEPT !.heard = emitted, !.call = NoCall, !.last = "stop ok",
                                  !.timerInterval = TimerEffect("completed")]
     ELSE /\ hook' = [hook EXCEPT !.heard = emitted, !.call = NoCall, !.last = "stop failed"]
          /\ UNCHANGED store
  /\ media' = CleanupMedia(media)
  /\ UNCHANGED <<sockets, sessions, transcripts, summaries, errorLogs, jobs, emitted>>
  /\ UNCHANGED storeVars
  /\ UNCHANGED <<now, recordedMs>>

\* statusMap[data.status] || "idle"
StatusMap(status) ==
  IF status = "RECORDING" THEN "recording"
  ELSE IF status = "PAUSED" THEN "paused"
  ELSE IF status = "COMPLETED" THEN "completed"
  ELSE IF status = "PROCESSING" THEN "processing"
  ELSE "idle"

\* the event has been sent to the client's socket: the start-recording
\* handler emits RECORDING with socket.to(room), which leaves its own socket
\* out; the other handlers and the summary job emit with io.to(room)
SentToClient(e) ==
  (e.type = "recording-status" /\ e.status = "RECORDING")
  => \E r \in Reqs :
       /\ r.pc = "done" /\ r.ack = "ok" /\ r.sid = e.sessionId
       /\ r.kind = "resume" \/ (r.kind = "start" /\ r.conn # ClientConn)

\* the recording-status listener: an event of a room the socket has joined
OnRecordingStatus(e) ==
  /\ IsConnected
  /\ hook.mounted
  /\ ~TimerDue
  /\ e \in emitted \ hook.heard
  /\ e.type = "recording-status"
  /\ e.sessionId \in sockets[ClientConn].rooms
  /\ SentToClient(e)
  /\ store' = [store EXCEPT !.status = StatusMap(e.status)]
  /\ hook' = [hook EXCEPT !.heard = @ \cup {e},
                          !.timerInterval = TimerEffect(StatusMap(e.status))]
  /\ UNCHANGED coordVars
  /\ UNCHANGED storeVars
  /\ UNCHANGED <<now, recordedMs, media>>

\* the transcription-update listener: an event of a room the socket has
\* joined is handed to store.addTranscriptChunk
OnTranscriptionUpdate(e) ==
  /\ IsConnected
  /\ hook.mounted
  /\ ~TimerDue
  /\ e \in emitted \ hook.heard
  /\ e.type = "transcription-update"
  /\ e.sessionId \in sockets[ClientConn].rooms
  /\ LET chunk == [chunkIndex |-> e.chunkIndex, text |-> e.text]
         next == AddTranscriptChunk(StoreState, chunk)
     IN /\ transcriptChunks' = next.transcriptChunks
        /\ fullTranscript' = next.fullTranscript
        /\ delivered' = Append(delivered, chunk)
  /\ hook' = [hook EXCEPT !.heard = @ \cup {e}]
  /\ UNCHANGED coordVars
  /\ UNCHANGED <<store, now, recordedMs, media>>

\* the interval fires: store.updateElapsedTime()
TimerTick ==
  /\ TimerDue
  /\ store' = UpdateElapsedTime(store)
  /\ hook' = [hook EXCEPT !.timerInterval = now + TimerIntervalMs]
  /\ UNCHANGED coordVars
  /\ UNCHANGED storeVars
  /\ UNCHANGED <<now, recordedMs, media>>

\* the time of the browser advances; an interval that is due fires first
AdvanceClock ==
  /\ now < MaxClockSteps * ClockStep
  /\ ~TimerDue
  /\ now' = now + ClockStep
  /\ recordedMs' = IF store.status = "recording" THEN recordedMs + ClockStep ELSE recordedMs
  /\ UNCHANGED coordVars
  /\ UNCHANGED storeVars
  /\ UNCHANGED <<store, hook, media>>

\* mediaRecorder.ondataavailable: the recorder delivers a capture fragment of
\* its time slice, which is pushed on the buffer
DataAvailable ==
  /\ media.recorder = "recording"
  /\ media.live
  /\ media.captured < MaxFragments
  /\ ~TimerDue
  /\ media' = [media EXCEPT !.captured = @ + 1,
                            !.chunksBuffer = Append(@, media.captured + 1)]
  /\ UNCHANGED coordVars
  /\ UNCHANGED storeVars
  /\ UNCHANGED <<store, hook, now, recordedMs>>

\* a flush interval fires: sendAudioChunk up to the await of its emit
ChunkTimerFires ==
  /\ media.chunkTimers > 0
  /\ ~TimerDue
  /\ Flushes
  /\ EmitChunk
  /\ media' = [HandOff(media) EXCEPT
                 !.sending = @ (+) SetToBag({[sessionId |-> store.sessionId,
                                              chunkIndex |-> store.chunksSent]})]
  /\ UNCHANGED <<sockets, sessions, transcripts, summaries, errorLogs, jobs, emitted>>
  /\ UNCHANGED storeVars
  /\ UNCHANGED <<store, hook, now, recordedMs>>

\* the emit of a segment sent by the interval settles: incrementChunksSent when
\* it succeeded, the error is written to the console when it was rejected
SendAck(r) ==
  /\ ~TimerDue
  /\ IsConnected
  /\ r \in AnswerOf("chunk")
  /\ LET send == [sessionId |-> r.sid, chunkIndex |-> r.chunkIndex]
     IN /\ BagIn(send, media.sending)
        /\ media' = [media EXCEPT !.sending = @ (-) SetToBag({send})]
  /\ Answer(r)
  /\ store' = IF r.ack = "ok" THEN IncrementChunksSent(store) ELSE store
  /\ UNCHANGED <<sockets, sessions, transcripts, summaries, errorLogs, jobs, emitted>>
  /\ UNCHANGED storeVars
  /\ hook' = [hook EXCEPT !.heard = emitted]
  /\ UNCHANGED <<now, recordedMs>>

\* the component is unmounted: the cleanup of the effects runs cleanupMedia
\* and clears the elapsed-time interval; the listeners are removed
Unmount ==
  /\ hook.mounted
  /\ hook' = [hook EXCEPT !.mounted = FALSE, !.timerInterval = NoTimer]
  /\ media' = CleanupMedia(media)
  /\ UNCHANGED coordVars
  /\ UNCHANGED storeVars
  /\ UNCHANGED <<store, now, recordedMs>>

\* RecordingControls: the buttons the component shows for a status
Controls(status) ==
  IF status = "idle" THEN {"start"}
  ELSE IF status = "recording" THEN {"pause", "stop"}
  ELSE IF status = "paused" THEN {"resume", "stop"}
  ELSE IF status = "completed" THEN {"start"}
  ELSE {}

\* handleStart: the start button, refused when the socket is not connected or
\* the permission was denied
HandleStart(source, capture) ==
  /\ "start" \in Controls(store.status)
  /\ IsConnected
  /\ media.permissionStatus # "denied"
  /\ StartRecordingCall(source, capture)

\* the pause and resume buttons
HandleControl(kind) ==
  /\ kind \in Controls(store.status)
  /\ ControlCall(kind)

\* handleStop: the stop button
HandleStop ==
  /\ "stop" \in Controls(store.status)
  /\ StopRecordingCall

----------------------------------------------------------------------------
(* The coordinator under any clients *)

InitCoord ==
  /\ sockets = [c \in Conns |-> [state |-> "new", userId |-> UserA,
                                 currentSessionId |-> NoSession, rooms |-> {}]]
  /\ sessions = << >>
  /\ transcripts = << >>
  /\ summaries = << >>
  /\ errorLogs = {}
  /\ reqs = EmptyBag
  /\ jobs = EmptyBag
  /\ emitted = {}

Init == InitCoord /\ InitStore /\ InitClient

\* the session ids a client may name: those of the records, and one of no record
NamedSessionIds == SessionIds \cup {UnknownSessionId}

\* the number of elements of the bag B that are in the set S
RECURSIVE SumCopies(_, _)
SumCopies(B, S) ==
  IF S = {} THEN 0
  ELSE LET x == CHOOSE x \in S : TRUE IN CopiesIn(x, B) + SumCopies(B, S \ {x})

\* start-recording handlers that have not created their session yet
PendingStarts == SumCopies(reqs, {r \in Reqs : r.kind = "start" /\ r.pc # "done"})

CanReceive == BagCardinality(reqs) < MaxReqs

Next ==
  \/ \E c \in Conns, u \in Users : Connect(c, u)
  \/ \E c \in Conns :
       /\ CanReceive /\ Len(sessions) + PendingStarts < MaxSessions /\ ReceiveStart(c)
       /\ UNCHANGED clientVars
  \/ \E c \in Conns, sid \in NamedSessionIds, k \in 0..MaxChunkIndex :
       CanReceive /\ ReceiveChunk(c, sid, k) /\ UNCHANGED clientVars
  \/ \E c \in Conns, sid \in NamedSessionIds, kind \in {"pause", "resume"} :
       CanReceive /\ ReceiveControl(c, kind, sid) /\ UNCHANGED clientVars
  \/ \E c \in Conns, sid \in NamedSessionIds, d \in Durations :
       CanReceive /\ ReceiveStop(c, sid, d) /\ UNCHANGED clientVars
  \/ \E c \in Conns : CanReceive /\ Disconnect(c)
  \/ \E r \in Reqs : StartCreate(r)
  \/ \E r \in Reqs : ChunkRecover(r)
  \/ \E r \in Reqs, ok \in BOOLEAN, text \in Texts : ChunkTranscribe(r, ok, text)
  \/ \E r \in Reqs : ChunkPersist(r)
  \/ \E r \in Reqs : ControlUpdate(r)
  \/ \E r \in Reqs : StopRead(r)
  \/ \E r \in Reqs : StopStatus(r)
  \/ \E r \in Reqs : StopDuration(r)
  \/ \E r \in Reqs : StopLogError(r)
  \/ \E r \in Reqs : DisconnectRead(r)
  \/ \E r \in Reqs : DisconnectFail(r)
  \/ \E r \in Reqs : DisconnectLogError(r)
  \/ \E j \in Jobs : JobFind(j)
  \/ \E j \in Jobs, outcome \in {"too short", "generated", "failed"} :
       JobSummarize(j, outcome)
  \/ \E j \in Jobs : JobTransaction(j)
  \/ \E j \in Jobs : JobCatchStatus(j)
  \/ \E j \in Jobs : JobCatchLog(j)

Spec == Init /\ [][Next]_vars

----------------------------------------------------------------------------
(* Claims about the coordinator *)

\* the sessions created by the start-recording handlers of connection c
StartedBy(c) ==
  {r.created : r \in {x \in Reqs : x.kind = "start" /\ x.conn = c /\ x.pc = "done"}}

SummariesOf(sid) == {k \in 1..Len(summaries) : summaries[k].sessionId = sid}

JobsOf(sid) == SumCopies(jobs, {j \in Jobs : j.sid = sid})

\* C1: a connection never has two sessions it started in an active status
\* (RECORDING or PAUSED) at the same time: a start-recording request on a
\* connection whose session is still active creates no session
C1_OneActiveSessionPerConnection ==
  \A c \in Conns :
    Cardinality({sid \in StartedBy(c) : sessions[sid].status \in ActiveStatuses}) <= 1

C3_DisconnectNeverRegresses ==
  [][\A sid \in SessionIds :
       (/\ sessions[sid].status \in {"PROCESSING", "COMPLETED"}
        /\ \E r \in Reqs : DisconnectFail(r))
       => sessions'[sid].status # "FAILED"]_vars

\* C4: once the disconnect handler of a connection has found the connection's
\* session RECORDING or PAUSED and has run to its end, the session's persisted
\* status is FAILED, for good, and the error log holds the cause
C4_DisconnectFailsActiveSession ==
  \A r \in Reqs :
    (r.kind = "disconnect" /\ r.pc = "done" /\ r.found /\ r.row.status \in ActiveStatuses)
    => /\ sessions[r.sid].status = "FAILED"
       /\ [sessionId |-> r.sid, errorType |-> "CLIENT_DISCONNECTED"] \in errorLogs

\* C5: a persisted status of COMPLETED or FAILED never changes
C5_TerminalStatusIsFinal ==
  [][\A sid \in SessionIds :
       sessions[sid].status \in {"COMPLETED", "FAILED"}
       => sessions'[sid].status = sessions[sid].status]_vars

\* the recovery rule: the session exists, belongs to the connection's user and
\* is RECORDING or PAUSED
Recoverable(c, sid) ==
  /\ SessionExists(sid)
  /\ sessions[sid].userId = sockets[c].userId
  /\ sessions[sid].status \in ActiveStatuses

\* C6: an audio-chunk whose session id differs from the connection's bound
\* session id goes on to transcription only when the recovery rule holds, and
\* the connection is then bound to that session; otherwise it is acknowledged
\* with a failure, and nothing is persisted or broadcast and no binding changes;
\* a rejected chunk takes no further step
C6_MismatchRecoversOrRejects ==
  /\ [][\A r \in Reqs :
          ChunkRecover(r) =>
            IF Recoverable(r.conn, r.sid)
            THEN /\ sockets'[r.conn].currentSessionId = r.sid
                 /\ \E q \in BagToSet(reqs') :
                      q.kind = "chunk" /\ q.sid = r.sid /\ q.pc = "transcribe"
            ELSE /\ sockets' = sockets
                 /\ transcripts' = transcripts
                 /\ emitted' = emitted
                 /\ \E q \in BagToSet(reqs') :
                      /\ q.kind = "chunk" /\ q.sid = r.sid /\ q.conn = r.conn
                      /\ q.pc = "done" /\ q.ack = "fail" /\ q.error # ""]_vars
  /\ [](\A r \in Reqs :
          (r.kind = "chunk" /\ r.mismatch /\ r.pc \in {"transcribe", "persist", "done"}
             /\ r.ack # "fail")
          => /\ r.found
             /\ r.row.userId = sockets[r.conn].userId
             /\ r.row.status \in ActiveStatuses)

\* a chunk for a session the connection was no longer bound to has been
\* recovered, persisted and acknowledged
C6_Witness ==
  \E r \in Reqs :
    /\ r.kind = "chunk" /\ r.mismatch /\ r.pc = "done" /\ r.ack = "ok"
    /\ \E k \in 1..Len(transcripts) : transcripts[k].sessionId = r.sid
    /\ sockets[r.conn].currentSessionId = r.sid

----------------------------------------------------------------------------
(* The coordinator when calls to the store may throw: addTranscript in       *)
(* processAudioChunk, and findMany and the transaction in the summary job    *)

NextFaults ==
  \/ Next
  \/ \E r \in Reqs : ChunkPersistFails(r)
  \/ \E j \in Jobs : JobFindFails(j)
  \/ \E j \in Jobs : JobTransactionFails(j)

SpecFaults == Init /\ [][NextFaults]_vars

\* one step of a background summary job
JobStep ==
  \E j \in Jobs :
    \/ JobFind(j)
    \/ JobFindFails(j)
    \/ \E outcome \in {"too short", "generated", "failed"} : JobSummarize(j, outcome)
    \/ JobTransaction(j)
    \/ JobTransactionFails(j)
    \/ JobCatchStatus(j)
    \/ JobCatchLog(j)

\* the event loop keeps running the summary jobs
SpecJobsFair == SpecFaults /\ WF_vars(JobStep)

\* the transcript rows of chunk `chunkIndex` of session `sid`
RowsOf(sid, chunkIndex) ==
  {k \in 1..Len(transcripts) :
     transcripts[k].sessionId = sid /\ transcripts[k].chunkIndex = chunkIndex}

Confidences == {ZeroConfidence, HighConfidence}

\* audio-chunk handlers that ended with the given outcome
ChunksDone == {r \in Reqs : r.kind = "chunk" /\ r.pc = "done"}

\* C11: when the transcription of an accepted chunk is empty text with
\* confidence 0, a fragment is stored for the chunk index, a
\* transcription-update with empty text and confidence 0 is broadcast for it,
\* and the chunk is acknowledged with success
C11_SilenceStoredAndBroadcast ==
  \A r \in ChunksDone :
    (r.ack # "fail" /\ r.text = EmptyText /\ r.confidence = ZeroConfidence)
    => /\ r.ack = "ok"
       /\ RowsOf(r.sid, r.chunkIndex) # {}
       /\ TranscriptionEvent(r.sid, r.chunkIndex, EmptyText, ZeroConfidence) \in emitted

C13_PersistFailureKeepsLiveFragment ==
  \A r \in ChunksDone :
    r.persistFailed
    => /\ r.ack = "ok"
       /\ \E conf \in Confidences :
            TranscriptionEvent(r.sid, r.chunkIndex, r.transcriptionText, conf) \in emitted

\* the stop requests of session `sid` that were not answered as duplicates and
\* have been acknowledged with success
AcceptedStops(sid) ==
  {r \in Reqs : /\ r.kind = "stop" /\ r.sid = sid /\ r.pc = "done" /\ r.ack = "ok"
                /\ r.found /\ ~IsDuplicateStop(r.row.status)}

\* a stop request of session `sid` has just been accepted: the job it started
\* has not taken a step
JustAccepted(sid) ==
  /\ AcceptedStops(sid) # {}
  /\ \E j \in Jobs : j.sid = sid /\ j.pc = "find"

\* C14: from the moment a stop-recording request is accepted, the session's
\* persisted status is COMPLETED at some later time and a COMPLETED
\* recording-status is broadcast at some later time, on the path where the
\* transaction commits and on the path where the job's try block throws
C14_StopLeadsToCompleted ==
  \A sid \in 1..MaxSessions :
    /\ JustAccepted(sid) ~> (SessionExists(sid) /\ sessions[sid].status = "COMPLETED")
    /\ JustAccepted(sid) ~> (StatusEvent("COMPLETED", sid) \in emitted)

\* a summary job whose try block threw has ended, the session is COMPLETED
\* without a summary and COMPLETED has been broadcast
C14_Witness ==
  \E j \in Jobs :
    /\ j.pc = "done" /\ j.caught
    /\ AcceptedStops(j.sid) # {}
    /\ sessions[j.sid].status = "COMPLETED"
    /\ SummariesOf(j.sid) = {}
    /\ StatusEvent("COMPLETED", j.sid) \in emitted

\* C15: when a summary job has marked its session COMPLETED in its catch
\* block, the session's persisted full transcript is the concatenation of the
\* session's fragments in index order
C15_FailurePathKeepsTranscript ==
  \A j \in Jobs :
    (j.caught /\ j.pc \in {"catchLog", "done"} /\ sessions[j.sid].status = "COMPLETED")
    => sessions[j.sid].fullTranscript = FullTranscriptOf(j.sid)

\* the position of event e in the sequence seq, 0 when it is not there
PositionIn(seq, e) ==
  IF \E k \in 1..Len(seq) : seq[k] = e THEN CHOOSE k \in 1..Len(seq) : seq[k] = e ELSE 0

\* C16: the step of the stop handler that starts the summary job is the step
\* that acknowledges the stop with success, so that every job, whatever its
\* position, has its stop acknowledged; a COMPLETED broadcast of a session is
\* preceded by a PROCESSING broadcast of the session, and a summary-generated
\* event by a COMPLETED broadcast
C16_AckBeforeSummary ==
  /\ [][\A r \in Reqs :
          StopDuration(r)
          => /\ [r EXCEPT !.pc = "done", !.ack = "ok"] \in BagToSet(reqs')
             /\ NewJob(r.sid) \in BagToSet(jobs')]_vars
  /\ [](\A sid \in SessionIds :
          /\ JobsOf(sid) = SumCopies(reqs, AcceptedStops(sid))
          /\ StatusEvent("COMPLETED", sid) \in emitted
               => StatusEvent("PROCESSING", sid) \in emitted
          /\ SummaryEvent(sid) \in emitted
               => StatusEvent("COMPLETED", sid) \in emitted
          /\ LET events == CompletionEvents(sid)
             IN /\ PositionIn(events, StatusEvent("COMPLETED", sid)) > 0
                /\ PositionIn(events, StatusEvent("COMPLETED", sid))
                     < PositionIn(events, SummaryEvent(sid)))

\* a stop has been acknowledged with success while the job it started has not
\* taken a step and the session is still PROCESSING
C16_Witness ==
  \E j \in Jobs :
    /\ j.pc = "find"
    /\ AcceptedStops(j.sid) # {}
    /\ sessions[j.sid].status = "PROCESSING"
    /\ StatusEvent("PROCESSING", j.sid) \in emitted
    /\ StatusEvent("COMPLETED", j.sid) \notin emitted

----------------------------------------------------------------------------
(* The client with its coordinator: the calls of the hook, the handlers and  *)
(* the summary jobs of its requests, and the recording-status listener       *)

NextClient ==
  \/ Connect(ClientConn, UserA)
  \/ \E source \in Sources, capture \in {"stream", "cancelled", "denied", "failed"} :
       StartRecordingCall(source, capture)
  \/ \E r \in Reqs : StartRecordingAck(r)
  \/ \E kind \in {"pause", "resume"} : ControlCall(kind)
  \/ \E r \in Reqs : ControlAck(r)
  \/ StopRecordingCall
  \/ \E r \in Reqs : StopRecordingAck(r)
  \/ \E e \in emitted : OnRecordingStatus(e)
  \/ \E r \in Reqs : StartCreate(r)
  \/ \E r \in Reqs : StartCreateFails(r)
  \/ \E r \in Reqs : ControlUpdate(r)
  \/ \E r \in Reqs : StopRead(r)
  \/ \E r \in Reqs : StopStatus(r)
  \/ \E r \in Reqs : StopDuration(r)
  \/ \E j \in Jobs : JobFind(j)
  \/ \E j \in Jobs, outcome \in {"too short", "generated", "failed"} :
       JobSummarize(j, outcome)
  \/ \E j \in Jobs : JobTransaction(j)

SpecClient == Init /\ [][NextClient]_vars

\* C19: a start attempt that fails (the socket is not connected, the capture
\* is denied, cancelled or fails, the coordinator rejects the request) ends
\* with the client status idle and an error message set
C19_FailedStartIsIdleWithError ==
  [][(hook'.last = "start failed" /\ hook' # hook)
     => (store'.status = "idle" /\ store'.error # "")]_vars

\* C20: the client status is completed only when the coordinator has
\* broadcast COMPLETED for the client's session, and never while the persisted
\* status of the session is PROCESSING
C20_CompletedOnlyAfterCoordinator ==
  store.status = "completed"
  => /\ store.sessionId # NoSession
     /\ StatusEvent("COMPLETED", store.sessionId) \in emitted
     /\ sessions[store.sessionId].status # "PROCESSING"

\* a start attempt sets the status to recording in this step
StartSetsRecording ==
  hook.call.op = "start" /\ hook'.call = NoCall /\ store'.status = "recording"

\* C28: startRecording emits start-recording only when the socket is
\* connected; the step of a start attempt that sets the status to recording
\* is taken with the socket connected, the capture stream acquired (and the
\* permission granted for the microphone) and on a successful
\* acknowledgement that carries the id of a session, which is the session id
\* of the store after the step; the session id of the store changes in no
\* other step
C28_RecordingOnlyAfterStartAck ==
  [][/\ (hook.call = NoCall /\ hook'.call.op = "start") => IsConnected
     /\ StartSetsRecording
          => (/\ IsConnected
              /\ media.live
              /\ hook.call.source = "MIC" => media.permissionStatus = "granted"
              /\ \E r \in AnswerOf("start") :
                   /\ reqs' = Answered(r)
                   /\ r.ack = "ok"
                   /\ SessionExists(r.created)
                   /\ store'.sessionId = r.created)
     /\ store'.sessionId # store.sessionId => StartSetsRecording]_vars

\* the client is recording its second session, after a start that was
\* acknowledged
C28_Witness ==
  /\ hook.last = "start ok"
  /\ store.status = "recording"
  /\ store.sessionId = 2
  /\ media.live

----------------------------------------------------------------------------
(* The client with its coordinator when the calls of the handlers to the     *)
(* store may throw                                                           *)

NextClientFaults ==
  \/ NextClient
  \/ \E r \in Reqs : ControlUpdateFails(r)
  \/ \E r \in Reqs : StopReadFails(r)
  \/ \E r \in Reqs : StopLogError(r)

SpecClientFaults == Init /\ [][NextClientFaults]_vars

\* the call in progress returns in this step on a failure acknowledgement
CallRejected ==
  /\ hook.call.op \in {"pause", "resume", "stop"}
  /\ hook'.call = NoCall
  /\ \E r \in AnswerOf(hook.call.op) : reqs' = Answered(r) /\ r.ack = "fail"

\* C29: when the coordinator answers a stop, a pause or a resume of the
\* client with a failure acknowledgement, the client status is error when the
\* call returns
C29_RejectionIsError ==
  [][CallRejected => store'.status = "error"]_vars

----------------------------------------------------------------------------
(* The elapsed time of the client: the calls of the hook, the handlers of    *)
(* their requests, the interval and the clock of the browser                 *)

NextTimer ==
  \/ Connect(ClientConn, UserA)
  \/ StartRecordingCall("MIC", "stream")
  \/ \E r \in Reqs : StartRecordingAck(r)
  \/ \E kind \in {"pause", "resume"} : ControlCall(kind)
  \/ \E r \in Reqs : ControlAck(r)
  \/ StopRecordingCall
  \/ \E r \in Reqs : StopRecordingAck(r)
  \/ TimerTick
  \/ AdvanceClock
  \/ \E r \in Reqs : StartCreate(r)
  \/ \E r \in Reqs : ControlUpdate(r)
  \/ \E r \in Reqs : StopRead(r)
  \/ \E r \in Reqs : StopStatus(r)
  \/ \E r \in Reqs : StopDuration(r)

SpecTimer == Init /\ [][NextTimer]_vars

\* C17: the duration a stop reports is the time, in whole seconds, that the
\* client status has been recording in the session, the paused time left out
C17_ReportedDurationIsRecordedTime ==
  hook.call.op = "stop" => hook.call.duration = hook.call.recordedMs \div 1000

\* C18: the elapsed time decreases only when a new session is started, and
\* does not change while the status is paused
C18_ElapsedTimeMonotonic ==
  [][/\ store'.elapsedTime < store.elapsedTime => store'.sessionId # store.sessionId
     /\ (store.status = "paused" /\ store'.sessionId = store.sessionId)
          => store'.elapsedTime = store.elapsedTime]_vars

----------------------------------------------------------------------------
(* The capture of the client: the controls of the component, the recorder,   *)
(* the flush interval and the sends of its segments, with the handlers of    *)
(* the requests and the recording-status listener                            *)

NextCapture ==
  \/ Connect(ClientConn, UserA)
  \/ \E source \in Sources, capture \in {"stream", "cancelled", "denied", "failed"} :
       HandleStart(source, capture)
  \/ \E r \in Reqs : StartRecordingAck(r)
  \/ \E kind \in {"pause", "resume"} : HandleControl(kind)
  \/ \E r \in Reqs : ControlAck(r)
  \/ HandleStop
  \/ \E r \in Reqs : StopFlushAck(r)
  \/ \E r \in Reqs : StopRecordingAck(r)
  \/ DataAvailable
  \/ ChunkTimerFires
  \/ \E r \in Reqs : SendAck(r)
  \/ \E e \in emitted : OnRecordingStatus(e)
  \/ \E r \in Reqs : StartCreate(r)
  \/ \E r \in Reqs, ok \in BOOLEAN : ChunkTranscribe(r, ok, Hello)
  \/ \E r \in Reqs : ChunkPersist(r)
  \/ \E r \in Reqs : ControlUpdate(r)
  \/ \E r \in Reqs : StopRead(r)
  \/ \E r \in Reqs : StopStatus(r)
  \/ \E r \in Reqs : StopDuration(r)

SpecCapture == Init /\ [][NextCapture]_vars

\* the capture fragments of the segments emitted so far
SentFragments == UNION {Range(media.sent[k].fragments) : k \in 1..Len(media.sent)}

\* stopRecording is invoked in this step
StopInvoked == hook.call = NoCall /\ hook'.call.op = "stop"

\* C22: when stop is invoked, from recording or from paused, the capture
\* fragments in the buffer are emitted as one segment before stop-recording is
\* emitted: a stop that emits stop-recording at once finds the buffer empty,
\* and a stop that flushes first emits the whole buffer as its segment
C22_StopFlushesBuffer ==
  [][StopInvoked
     => /\ (hook'.call.phase = "emit" => media.chunksBuffer = << >>)
        /\ (hook'.call.phase = "flush"
             => /\ Len(media'.sent) = Len(media.sent) + 1
                /\ media'.sent[Len(media'.sent)].fragments = media.chunksBuffer)]_vars

\* C24: the segments the client emits for one session carry increasing chunk
\* indices in the order of their emits, so that no two segments of a session
\* share an index
C24_ChunkIndexIncreasing ==
  \A i, j \in 1..Len(media.sent) :
    (i < j /\ media.sent[i].sessionId = media.sent[j].sessionId)
    => media.sent[i].chunkIndex < media.sent[j].chunkIndex

\* a sendAudioChunk call is at its emit: one of the interval, or the final
\* flush of stopRecording
SendInFlight ==
  \/ media.sending # EmptyBag
  \/ hook.call.op = "stop" /\ hook.call.phase = "flush"

\* C27: the buffer is swapped to empty in the step that builds the segment: no
\* capture fragment is in two segments or in a segment and still in the
\* buffer, and a fragment that arrives while a segment is at its emit is put
\* in the buffer, from which the next segment is built
C27_HandOffAtomic ==
  /\ [](/\ \A i, j \in 1..Len(media.sent) :
             i # j => Range(media.sent[i].fragments) \cap Range(media.sent[j].fragments) = {}
        /\ SentFragments \cap Range(media.chunksBuffer) = {}
        /\ \A k \in 1..Len(media.sent) : media.sent[k].fragments # << >>)
  /\ [][/\ (SendInFlight /\ media'.captured # media.captured)
             => (/\ media'.chunksBuffer = Append(media.chunksBuffer, media'.captured)
                 /\ media'.sent = media.sent)
        /\ media'.sent # media.sent
             => (/\ media'.sent = Append(media.sent,
                                         [sessionId |-> store.sessionId,
                                          chunkIndex |-> store.chunksSent,
                                          fragments |-> media.chunksBuffer])
                 /\ media'.chunksBuffer = << >>)]_vars

\* two segments have been emitted, the second one while the first was at its
\* emit: its fragment arrived during the hand-off of the first
C27_Witness ==
  /\ Len(media.sent) = 2
  /\ BagCardinality(media.sending) = 2
  /\ media.sent[1].fragments = <<1>>
  /\ media.sent[2].fragments = <<2>>

----------------------------------------------------------------------------
(* The capture of the client when the transport may be lost and the          *)
(* component may be unmounted.  The handlers of the coordinator and the      *)
(* continuations of the client's calls keep running; the user, the recorder  *)
(* and the transport are not bound to do anything.                           *)

NextSession ==
  \/ Connect(ClientConn, UserA)
  \/ \E source \in Sources, capture \in {"stream", "cancelled", "denied", "failed"} :
       HandleStart(source, capture)
  \/ \E r \in Reqs : StartRecordingAck(r)
  \/ \E kind \in {"pause", "resume"} : HandleControl(kind)
  \/ \E r \in Reqs : ControlAck(r)
  \/ HandleStop
  \/ \E r \in Reqs : StopFlushAck(r)
  \/ \E r \in Reqs : StopRecordingAck(r)
  \/ DataAvailable
  \/ ChunkTimerFires
  \/ \E r \in Reqs : SendAck(r)
  \/ Unmount
  \/ Disconnect(ClientConn)
  \/ \E r \in Reqs : DisconnectRead(r)
  \/ \E r \in Reqs : DisconnectFail(r)
  \/ \E r \in Reqs : DisconnectLogError(r)
  \/ \E r \in Reqs : StartCreate(r)
  \/ \E r \in Reqs, ok \in BOOLEAN : ChunkTranscribe(r, ok, Hello)
  \/ \E r \in Reqs : ChunkPersist(r)
  \/ \E r \in Reqs : ControlUpdate(r)
  \/ \E r \in Reqs : StopRead(r)
  \/ \E r \in Reqs : StopStatus(r)
  \/ \E r \in Reqs : StopDuration(r)

SpecSession == Init /\ [][NextSession]_vars

\* one step of a handler of the coordinator
HandlerStep ==
  \E r \in Reqs :
    \/ StartCreate(r)
    \/ \E ok \in BOOLEAN : ChunkTranscribe(r, ok, Hello)
    \/ ChunkPersist(r)
    \/ ControlUpdate(r)
    \/ StopRead(r)
    \/ StopStatus(r)
    \/ StopDuration(r)
    \/ DisconnectRead(r)
    \/ DisconnectFail(r)
    \/ DisconnectLogError(r)

\* the continuation of a call of the client whose emit has settled
ContinuationStep ==
  \E r \in Reqs :
    \/ StartRecordingAck(r)
    \/ ControlAck(r)
    \/ StopFlushAck(r)
    \/ StopRecordingAck(r)
    \/ SendAck(r)

\* the event loops of the coordinator and of the browser keep running
SpecSessionFair == SpecSession /\ WF_vars(HandlerStep) /\ WF_vars(ContinuationStep)

\* C21: after stop is invoked, after a start attempt has failed and after the
\* component is unmounted, the tracks of the capture stream are stopped at
\* some later time, whether the coordinator acknowledges or not
C21_CaptureReleased ==
  /\ (hook.call.op = "stop") ~> ~media.live
  /\ (hook.last = "start failed") ~> ~media.live
  /\ (~hook.mounted) ~> ~media.live

\* a call of the hook emits a request in this step
EmitsRequest ==
  /\ hook.call = NoCall
  /\ hook'.calls = hook.calls + 1
  /\ store.sessionId # NoSession
  /\ hook'.last # "start failed"

\* C23: a request emitted while the socket is not connected fails at once:
\* the call that emits it does not stay pending on its acknowledgement, and
\* the request does not reach the coordinator
C23_NotConnectedFailsAtOnce ==
  [][(~IsConnected /\ EmitsRequest)
     => (hook'.call = NoCall /\ reqs' = reqs)]_vars

\* the client takes a step
ClientStep == <<store, hook, media>>' # <<store, hook, media>>

\* C30: when the transport is lost while the client status is recording or
\* paused, the next thing the client does is to enter the error status, and
\* no segment is emitted for the session from then on
C30_DisconnectIsError ==
  [][(~IsConnected /\ store.status \in {"recording", "paused"} /\ ClientStep)
     => (store'.status = "error" /\ media'.sent = media.sent)]_vars

----------------------------------------------------------------------------
(* The end-to-end scenario, run by every connection on a session of its own: *)
(* start, chunks 0, 1, 2 transcribed as "Hello", "" and "world", each        *)
(* acknowledged, then stop with duration 15.  The chunk handlers overlap,    *)
(* and so do the scenarios of the connections.                               *)

ScenarioChunks == {0, 1, 2}

ScenarioText(k) == IF k = 0 THEN Hello ELSE IF k = 1 THEN EmptyText ELSE World

\* a duration of 15 seconds, in tenths of a second
ScenarioDuration == 15 * 10

HasSent(c, kind) == \E r \in Reqs : r.kind = kind /\ r.conn = c

HasSentChunk(c, k) == \E r \in Reqs : r.kind = "chunk" /\ r.conn = c /\ r.chunkIndex = k

ChunkAcked(c, k) ==
  \E r \in Reqs : r.kind = "chunk" /\ r.conn = c /\ r.chunkIndex = k /\ r.pc = "done"

Started(c) == \E r \in Reqs : r.kind = "start" /\ r.conn = c /\ r.pc = "done" /\ r.ack = "ok"

ScenarioStart(c) == ~HasSent(c, "start") /\ ReceiveStart(c) /\ UNCHANGED clientVars

ScenarioChunk(c, k) ==
  /\ Started(c)
  /\ ~HasSentChunk(c, k)
  /\ \A m \in ScenarioChunks : m < k => HasSentChunk(c, m)
  /\ ReceiveChunk(c, sockets[c].currentSessionId, k)
  /\ UNCHANGED clientVars

ScenarioTranscribe(r) == ChunkTranscribe(r, TRUE, ScenarioText(r.chunkIndex))

ScenarioStop(c) ==
  /\ \A k \in ScenarioChunks : ChunkAcked(c, k)
  /\ ~HasSent(c, "stop")
  /\ ReceiveStop(c, sockets[c].currentSessionId, ScenarioDuration)
  /\ UNCHANGED clientVars

NextScenario ==
  \/ \E c \in Conns, u \in Users : Connect(c, u)
  \/ \E c \in Conns : ScenarioStart(c)
  \/ \E r \in Reqs : StartCreate(r)
  \/ \E c \in Conns, k \in ScenarioChunks : ScenarioChunk(c, k)
  \/ \E r \in Reqs : ScenarioTranscribe(r)
  \/ \E r \in Reqs : ChunkPersist(r)
  \/ \E c \in Conns : ScenarioStop(c)
  \/ \E r \in Reqs : StopRead(r)
  \/ \E r \in Reqs : StopStatus(r)
  \/ \E r \in Reqs : StopDuration(r)
  \/ \E j \in Jobs : JobFind(j)
  \/ \E j \in Jobs, outcome \in {"too short", "generated", "failed"} :
       JobSummarize(j, outcome)
  \/ \E j \in Jobs : JobTransaction(j)

SpecScenario == Init /\ [][NextScenario]_vars

\* the scenario of connection c has run to its end: the stop is acknowledged
\* and the summary job it started has ended
ScenarioEnded(c) ==
  /\ \E r \in Reqs : r.kind = "stop" /\ r.conn = c /\ r.pc = "done"
  /\ \E j \in Jobs : j.sid = sockets[c].currentSessionId
  /\ \A j \in Jobs : j.sid = sockets[c].currentSessionId => j.pc = "done"

\* C10: when the scenario has run to its end the session's persisted status is
\* COMPLETED, its persisted full transcript is exactly "Hello world", and it
\* has a summary record
C10_EndToEnd ==
  \A c \in Conns :
    ScenarioEnded(c) =>
      LET sid == sockets[c].currentSessionId
      IN /\ sessions[sid].status = "COMPLETED"
         /\ sessions[sid].fullTranscript = HelloWorld
         /\ SummariesOf(sid) # {}

C10_Witness ==
  /\ ScenarioEnded(1)
  /\ sessions[sockets[1].currentSessionId].duration = 15
  /\ Len(transcripts) >= 2

----------------------------------------------------------------------------
(* The transcript assembler under any deliveries *)

NextStore ==
  \/ \E chunk \in Fragments : addTranscriptChunk(chunk)
  \/ clearTranscripts

SpecStore == Init /\ [][NextStore]_vars

EmptyStore == [transcriptChunks |-> << >>, fullTranscript |-> EmptyText]

\* the store after the deliveries of `seq`, in order, from the empty store
RECURSIVE Replay(_)
Replay(seq) ==
  IF seq = << >> THEN EmptyStore
  ELSE AddTranscriptChunk(Replay(SubSeq(seq, 1, Len(seq) - 1)), seq[Len(seq)])

IndexOccursBefore(seq, k) == \E m \in 1..(k - 1) : seq[m].chunkIndex = seq[k].chunkIndex

\* `seq` without the deliveries whose chunk index was delivered before
RECURSIVE FirstPerIndex(_)
FirstPerIndex(seq) ==
  IF seq = << >> THEN << >>
  ELSE LET front == FirstPerIndex(SubSeq(seq, 1, Len(seq) - 1))
       IN IF IndexOccursBefore(seq, Len(seq)) THEN front ELSE Append(front, seq[Len(seq)])

DistinctIndices(seq) ==
  \A a, b \in 1..Len(seq) : a # b => seq[a].chunkIndex # seq[b].chunkIndex

\* the fragments of `seq` (of distinct indices) in ascending index order
RECURSIVE Ascending(_, _)
Ascending(seq, from) ==
  IF from > MaxFragIndex + 1 THEN << >>
  ELSE SelectSeq(seq, LAMBDA f : f.chunkIndex = from) \o Ascending(seq, from + 1)

\* C7: adding a fragment whose chunk index is already present changes nothing,
\* adding any fragment a second time changes nothing, and the store is the one
\* the deliveries give with every repeated chunk index left out
C7_DuplicateFragmentIsNoOp ==
  /\ \A f \in Fragments :
       /\ AddTranscriptChunk(AddTranscriptChunk(StoreState, f), f)
            = AddTranscriptChunk(StoreState, f)
       /\ (\E k \in 1..Len(transcriptChunks) : transcriptChunks[k].chunkIndex = f.chunkIndex)
            => AddTranscriptChunk(StoreState, f) = StoreState
  /\ StoreState = Replay(FirstPerIndex(delivered))

C7_Witness ==
  /\ Len(delivered) >= 3
  /\ \E a, b \in 1..Len(delivered) : a < b /\ delivered[a] = delivered[b]
  /\ Len(transcriptChunks) = 2

\* C8: fragments of distinct chunk indices give, in whatever order they are
\* delivered, the fragment list and the full text that delivery in ascending
\* index order gives
C8_OrderIndependent ==
  DistinctIndices(delivered) =>
    /\ transcriptChunks = Ascending(delivered, 0)
    /\ StoreState = Replay(Ascending(delivered, 0))

C8_Witness ==
  /\ Len(delivered) = 3
  /\ delivered[1].chunkIndex = 2 /\ delivered[2].chunkIndex = 0 /\ delivered[3].chunkIndex = 1
  /\ Len(transcriptChunks) = 3

NonEmptyTexts(chunks) == SelectSeq(SeqMapText(chunks), LAMBDA t : t # EmptyText)

\* C9: the full text is the non-empty fragment texts, in chunk index order,
\* with exactly one space between consecutive texts
C9_FullTextSkipsEmptyFragments ==
  fullTranscript = JoinSpace(NonEmptyTexts(SortByChunkIndex(transcriptChunks)))

-----------------------------------------------------------------------------
(* The fragments the coordinator persists, and the transcript made of them *)

\* texts.join(" ") over the rows of the session, one row for each chunk index
\* (the first that was written)
FullTranscriptOnceOf(sid) == JoinSpace(SeqMapText(FirstPerIndex(FindTranscripts(sid))))

\* C25: an audio-chunk delivered twice with the same session id and chunk
\* index leaves the persisted fragments of the session, and the full
\* transcript made of them, as one delivery leaves them: a session has at most
\* one fragment for a chunk index, and the join of its fragments is the join
\* of one fragment for each index
C25_DuplicateChunkIdempotent ==
  \A sid \in SessionIds :
    /\ \A k \in 0..MaxChunkIndex : Cardinality(RowsOf(sid, k)) <= 1
    /\ FullTranscriptOf(sid) = FullTranscriptOnceOf(sid)

\* C26: the persisted full transcript of a session that is COMPLETED is the
\* concatenation, in chunk index order, of all the fragments persisted for
\* the session, those persisted after the stop request included
C26_CompletedTranscriptIsAllFragments ==
  \A sid \in SessionIds :
    sessions[sid].status = "COMPLETED"
    => sessions[sid].fullTranscript = FullTranscriptOf(sid)

-----------------------------------------------------------------------------
(* The coordinator when every call of a handler to the store may throw *)

\* db.recordingSession.findUnique of the recovery check throws: the catch
\* acknowledges the failure with the error's message
ChunkRecoverFails(r) ==
  /\ IsAt(r, "chunk", "recover")
  /\ Finish(r, [ack |-> "fail", error |-> "findUnique failed"])
  /\ UNCHANGED <<sockets, sessions, transcripts, summaries, errorLogs, jobs, emitted>>
  /\ UNCHANGED storeVars
  /\ UNCHANGED clientVars

\* updateSessionStatus(sessionId, "PROCESSING") throws: the catch awaits logError
StopStatusFails(r) ==
  /\ IsAt(r, "stop", "status")
  /\ Move(r, [pc |-> "logError", error |-> "updateSessionStatus failed"])
  /\ UNCHANGED <<sockets, sessions, transcripts, summaries, errorLogs, jobs, emitted>>
  /\ UNCHANGED storeVars
  /\ UNCHANGED clientVars

\* updateSessionDuration throws: the catch awaits logError
StopDurationFails(r) ==
  /\ IsAt(r, "stop", "duration")
  /\ Move(r, [pc |-> "logError", error |-> "updateSessionDuration failed"])
  /\ UNCHANGED <<sockets, sessions, transcripts, summaries, errorLogs, jobs, emitted>>
  /\ UNCHANGED storeVars
  /\ UNCHANGED clientVars

StopLogErrorFailsUnacknowledged(r) ==
  /\ IsAt(r, "stop", "logError")
  /\ Finish(r, [ack |-> "none"])
  /\ UNCHANGED <<sockets, sessions, transcripts, summaries, errorLogs, jobs, emitted>>
  /\ UNCHANGED storeVars
  /\ UNCHANGED clientVars

\* db.errorLog.create throws inside logError, which catches it and returns:
\* no row is written, the stop handler acknowledges the failure
StopLogErrorFails(r) ==
  /\ IsAt(r, "stop", "logError")
  /\ Finish(r, [ack |-> "fail"])
  /\ UNCHANGED <<sockets, sessions, transcripts, summaries, errorLogs, jobs, emitted>>
  /\ UNCHANGED storeVars
  /\ UNCHANGED clientVars

NextCoordFaults ==
  \/ NextFaults
  \/ \E r \in Reqs : StartCreateFails(r)
  \/ \E r \in Reqs : ChunkRecoverFails(r)
  \/ \E r \in Reqs : ControlUpdateFails(r)
  \/ \E r \in Reqs : StopReadFails(r)
  \/ \E r \in Reqs : StopStatusFails(r)
  \/ \E r \in Reqs : StopDurationFails(r)
  \/ \E r \in Reqs : StopLogErrorFails(r)

\* one step of a handler of a request: the call it awaits returns or throws
RequestStep ==
  \E r \in Reqs :
    \/ StartCreate(r) \/ StartCreateFails(r)
    \/ ChunkRecover(r) \/ ChunkRecoverFails(r)
    \/ \E ok \in BOOLEAN, text \in Texts : ChunkTranscribe(r, ok, text)
    \/ ChunkPersist(r) \/ ChunkPersistFails(r)
    \/ ControlUpdate(r) \/ ControlUpdateFails(r)
    \/ StopRead(r) \/ StopReadFails(r)
    \/ StopStatus(r) \/ StopStatusFails(r)
    \/ StopDuration(r) \/ StopDurationFails(r)
    \/ StopLogError(r) \/ StopLogErrorFails(r)

\* every call a handler awaits settles
SpecCoordFaultsFair == Init /\ [][NextCoordFaults]_vars /\ WF_vars(RequestStep)

RequestKinds == {"start", "chunk", "pause", "resume", "stop"}

\* a request whose handler has not acknowledged it
Unacknowledged(r) == r.kind \in RequestKinds /\ r.ack = "none"

\* C31: every start-recording, audio-chunk, pause-recording, resume-recording
\* and stop-recording request the coordinator has received is acknowledged at
\* some later time, once: the handler acknowledges when it ends and not
\* before, with success or with a failure that carries an error message, and
\* a handler that has ended takes no further step
C31_ExactlyOneAcknowledgement ==
  /\ [](\A r \in Reqs :
          r.kind \in RequestKinds
          => /\ (r.pc = "done") = (r.ack \in {"ok", "fail"})
             /\ (r.pc # "done") = (r.ack = "none")
             /\ (r.ack = "fail" => r.error # ""))
  /\ [][\A r \in Reqs :
          (r.kind \in RequestKinds /\ r.pc = "done")
          => CopiesIn(r, reqs') >= CopiesIn(r, reqs)]_vars
  /\ (\E r \in Reqs : Unacknowledged(r)) ~> (\A r \in Reqs : ~Unacknowledged(r))

\* a stop request was acknowledged with a failure although the write of the
\* error log failed too
C31_Witness ==
  \E r \in Reqs :
    /\ r.kind = "stop" /\ r.pc = "done" /\ r.ack = "fail"
    /\ r.error = "updateSessionDuration failed"
    /\ \A e \in errorLogs : e.sessionId # r.sid

\* a handler has ended after a write to the store that it made for its
\* session failed
WriteFailed(r) ==
  /\ r.pc = "done"
  /\ SessionExists(r.sid)
  /\ \/ r.kind = "chunk" /\ r.persistFailed
     \/ r.kind \in {"pause", "resume"} /\ r.ack = "fail"
     \/ r.kind = "stop" /\ r.ack = "fail" /\ r.found

\* C34: when the write of a fragment, of a status, of a duration or of a
\* summary has failed for a session, the error log holds an entry of the
\* session once the handler or the job that made the write has ended
C34_PersistenceFailureIsLogged ==
  /\ \A r \in Reqs :
       WriteFailed(r) => \E e \in errorLogs : e.sessionId = r.sid
  /\ \A j \in Jobs :
       (j.caught /\ j.pc = "done") => \E e \in errorLogs : e.sessionId = j.sid

-----------------------------------------------------------------------------
(* Requests for a session of another connection or of another user *)

\* the request names a session that is not the one bound to its connection,
\* or a session of another user
NotEntitled(r) ==
  /\ SessionExists(r.sid)
  /\ \/ sockets[r.conn].currentSessionId # r.sid
     \/ sessions[r.sid].userId # sockets[r.conn].userId

\* the request has ended with a failure acknowledgement that carries a message
RejectedIn(r, bag) ==
  \E q \in BagToSet(bag) :
    /\ q.kind = r.kind /\ q.conn = r.conn /\ q.sid = r.sid
    /\ q.pc = "done" /\ q.ack = "fail" /\ q.error # ""

\* C32: the step of a pause-recording, resume-recording or stop-recording
\* handler on a session that is not bound to the requesting connection, or
\* that another user owns, changes no persisted status and no persisted
\* duration, and the request is acknowledged with a failure
C32_ForeignSessionRejected ==
  [][\A r \in Reqs :
       (/\ r.kind \in {"pause", "resume", "stop"}
        /\ NotEntitled(r)
        /\ ControlUpdate(r) \/ StopRead(r) \/ StopStatus(r) \/ StopDuration(r))
       => (sessions' = sessions /\ RejectedIn(r, reqs'))]_vars

-----------------------------------------------------------------------------
(* A stop request for a session that is already stopped *)

\* the stop request has ended with a success acknowledgement
StopAcknowledgedIn(r, bag) ==
  \E q \in BagToSet(bag) :
    /\ q.kind = "stop" /\ q.conn = r.conn /\ q.sid = r.sid /\ q.duration = r.duration
    /\ q.pc = "done" /\ q.ack = "ok"

\* C33: the stop handler that reads its session as PROCESSING or COMPLETED
\* acknowledges with success in that step and changes no persisted record
\* (status and duration, whatever duration the request carries), broadcasts
\* nothing and starts no summary job; it never goes on to the writes
C33_DuplicateStopNoSideEffects ==
  /\ [][\A r \in Reqs :
          (/\ StopRead(r)
           /\ SessionExists(r.sid)
           /\ sessions[r.sid].status \in {"PROCESSING", "COMPLETED"})
          => /\ sessions' = sessions
             /\ summaries' = summaries
             /\ emitted' = emitted
             /\ jobs' = jobs
             /\ StopAcknowledgedIn(r, reqs')]_vars
  /\ [](\A r \in Reqs :
          (r.kind = "stop" /\ r.found /\ r.row.status \in {"PROCESSING", "COMPLETED"})
          => (r.pc = "done" /\ r.ack = "ok"))

\* a stop that carried another duration was answered for a session already
\* COMPLETED, which keeps the duration of the first stop and its one job
C33_Witness ==
  \E r \in Reqs :
    /\ r.kind = "stop" /\ r.pc = "done" /\ r.ack = "ok"
    /\ r.found /\ r.row.status = "COMPLETED"
    /\ sessions[r.sid].status = "COMPLETED"
    /\ sessions[r.sid].duration # NoDuration
    /\ sessions[r.sid].duration # MathFloor(r.duration)
    /\ JobsOf(r.sid) = 1

-----------------------------------------------------------------------------
(* The fragment list of the assembler *)

\* C35: after any addTranscriptChunk and clearTranscripts calls the fragment
\* list is strictly ascending by chunk index, the full text is the one that
\* the fragments of the list give when they are added to an empty store, and
\* a step that does not empty the list keeps every fragment of the list as
\* it is
C35_ListAscendingAndImmutable ==
  /\ [](\A k \in 1..(Len(transcriptChunks) - 1) :
          transcriptChunks[k].chunkIndex < transcriptChunks[k + 1].chunkIndex)
  /\ [](StoreState = Replay(transcriptChunks))
  /\ [][\/ transcriptChunks' = << >>
        \/ \A k \in 1..Len(transcriptChunks) :
             \E m \in 1..Len(transcriptChunks') :
               transcriptChunks'[m] = transcriptChunks[k]]_vars

\* an index was delivered again with another text, after fragments that came
\* out of order, and the list holds the two fragments that came first
C35_Witness ==
  /\ Len(delivered) = 3
  /\ delivered[1].chunkIndex > delivered[2].chunkIndex
  /\ delivered[3].chunkIndex = delivered[1].chunkIndex
  /\ delivered[3].text # delivered[1].text
  /\ transcriptChunks = <<delivered[2], delivered[1]>>

-----------------------------------------------------------------------------
(* Flushing across a pause *)

\* pauseRecording is called in this step and reaches its emit
PauseCalled == hook.call = NoCall /\ hook'.call.op = "pause"

\* a segment is emitted in this step
SegmentSent == Len(media'.sent) = Len(media.sent) + 1

\* the segment emitted in this step is the first since pauseRecording was
\* last called, in the session that was paused
FirstSinceResume ==
  /\ SegmentSent
  /\ media.pausedAt.sessionId = store.sessionId
  /\ media.pausedAt.sent = Len(media.sent)

IsPrefix(a, b) == Len(a) <= Len(b) /\ SubSeq(b, 1, Len(a)) = a

\* C36: pauseRecording clears the flush interval and keeps the buffer, and no
\* segment is emitted while the status is paused; the first segment emitted
\* after the resume carries a chunk index greater than the index of every
\* segment of the session emitted before the pause, and starts with the
\* fragments that were in the buffer at the pause
C36_FlushingAcrossPause ==
  /\ [][PauseCalled
        => (media'.chunksBuffer = media.chunksBuffer /\ ~media'.chunkTimerRef)]_vars
  /\ [][store.status = "paused" => media'.sent = media.sent]_vars
  /\ [][FirstSinceResume
        => LET segment == media'.sent[Len(media'.sent)]
           IN /\ \A k \in 1..Len(media.sent) :
                   media.sent[k].sessionId = segment.sessionId
                   => media.sent[k].chunkIndex < segment.chunkIndex
              /\ IsPrefix(media.pausedAt.chunksBuffer, segment.fragments)]_vars

-----------------------------------------------------------------------------
(* The listeners of the client over its recordings: the start and stop      *)
(* buttons, the capture and the sends, the handlers and the summary jobs of *)
(* the coordinator, and the events of the rooms the client's socket has     *)
(* joined                                                                    *)

NextListeners ==
  \/ Connect(ClientConn, UserA)
  \/ HandleStart("MIC", "stream")
  \/ \E r \in Reqs : StartRecordingAck(r)
  \/ HandleStop
  \/ \E r \in Reqs : StopFlushAck(r)
  \/ \E r \in Reqs : StopRecordingAck(r)
  \/ DataAvailable
  \/ ChunkTimerFires
  \/ \E r \in Reqs : SendAck(r)
  \/ \E e \in emitted : OnRecordingStatus(e)
  \/ \E e \in emitted : OnTranscriptionUpdate(e)
  \/ \E r \in Reqs : StartCreate(r)
  \/ \E r \in Reqs : ChunkTranscribe(r, TRUE, Hello)
  \/ \E r \in Reqs : ChunkPersist(r)
  \/ \E r \in Reqs : StopRead(r)
  \/ \E r \in Reqs : StopStatus(r)
  \/ \E r \in Reqs : StopDuration(r)
  \/ \E j \in Jobs : JobFind(j)
  \/ \E j \in Jobs, outcome \in {"too short", "generated", "failed"} :
       JobSummarize(j, outcome)
  \/ \E j \in Jobs : JobTransaction(j)

SpecListeners == Init /\ [][NextListeners]_vars

\* a fragment of the session and chunk index of `e` has been handed to the
\* store before
HeardFragmentOf(e) ==
  \E h \in hook.heard :
    /\ h.type = "transcription-update"
    /\ h.sessionId = e.sessionId
    /\ h.chunkIndex = e.chunkIndex

\* C37: a transcription-update of a session that is not the client's current
\* session leaves the fragment list as it is, and the first
\* transcription-update of the current session for a chunk index puts its
\* fragment in the list
C37_OnlyCurrentSessionFragments ==
  [][\A e \in emitted :
       OnTranscriptionUpdate(e)
       => IF e.sessionId # store.sessionId
          THEN transcriptChunks' = transcriptChunks
          ELSE ~HeardFragmentOf(e)
               => \E k \in 1..Len(transcriptChunks') :
                    transcriptChunks'[k] = [chunkIndex |-> e.chunkIndex,
                                            text |-> e.text]]_vars

\* C38: a recording-status event of a session that is not the client's
\* current session leaves the client's status as it is
C38_ForeignStatusIgnored ==
  [][\A e \in emitted :
       (OnRecordingStatus(e) /\ e.sessionId # store.sessionId)
       => store'.status = store.status]_vars

-----------------------------------------------------------------------------
(* The flush intervals of the client *)

\* the client has stopped or is torn down: stopRecording has returned, or the
\* component is unmounted
StoppedOrTornDown == hook.last \in {"stop ok", "stop failed"} \/ ~hook.mounted

\* C39: at most one flush interval is set at any time, and none is set once
\* stopRecording has returned or the component is unmounted, until the next
\* start
C39_OneFlushTimer ==
  /\ media.chunkTimers <= 1
  /\ (StoppedOrTornDown /\ hook.call = NoCall) => media.chunkTimers = 0

-----------------------------------------------------------------------------
(* The sessions of a connection that has disconnected *)

\* one step of a handler or of a summary job of the coordinator
CoordinatorStep ==
  \/ \E r \in Reqs :
       \/ StartCreate(r)
       \/ ChunkRecover(r)
       \/ \E ok \in BOOLEAN, text \in Texts : ChunkTranscribe(r, ok, text)
       \/ ChunkPersist(r)
       \/ ControlUpdate(r)
       \/ StopRead(r) \/ StopStatus(r) \/ StopDuration(r) \/ StopLogError(r)
       \/ DisconnectRead(r) \/ DisconnectFail(r) \/ DisconnectLogError(r)
  \/ \E j \in Jobs :
       \/ JobFind(j)
       \/ \E outcome \in {"too short", "generated", "failed"} : JobSummarize(j, outcome)
       \/ JobTransaction(j)
       \/ JobCatchStatus(j)
       \/ JobCatchLog(j)

\* the event loop of the coordinator keeps running its handlers and jobs
SpecCoordFair == Spec /\ WF_vars(CoordinatorStep)

\* C40: once the connection that started a session has disconnected, the
\* session reaches COMPLETED or FAILED at some later time
C40_NoSessionActiveForever ==
  \A c \in Conns, sid \in 1..MaxSessions :
    (sockets[c].state = "closed" /\ sid \in StartedBy(c))
    ~> (SessionExists(sid) /\ sessions[sid].status \in {"COMPLETED", "FAILED"})

====
